---- MODULE Spec2Model ----
(***************************************************************************)
(* A model of the MPEG-2 TS demuxer of src/demux/tsdemuxer.js.             *)
(*                                                                         *)
(* Buffers are byte sequences (JS index i is TLA+ index i+1).  The         *)
(* demuxer object is the record dmx, one field per instance field.  The    *)
(* module is an ES module, hence strict-mode code: an identifier that no   *)
(* scope of the file declares resolves against the global object of the    *)
(* embedding, and throws a ReferenceError when the embedding does not bind *)
(* it.  The record host holds what the embedding binds.  A call that       *)
(* throws keeps the assignments made before the throw.                     *)
(***************************************************************************)
EXTENDS Integers, Sequences, FiniteSets, TLC

VARIABLES
  dmx,    \* the TSDemuxer instance (its fields), or the marker of no instance
  host,   \* the embedding: global bindings the file reads without declaring
  out,    \* what the last call did: operation, exception, observer/remuxer log
  npush,  \* number of calls (push, or the function under check) made so far
  hist,   \* history of the calls since the last reset (read by properties only)
  fin,    \* input of the pure function under check (function specifications)
  fout    \* its result

vars == <<dmx, host, out, npush, hist, fin, fout>>

-----------------------------------------------------------------------------
(* JavaScript values                                                       *)

\* undefined, as the value of a missing array element or unset field
Undef == 0 - 2
\* NaN, the result of arithmetic on undefined
NaN == 0 - 3
\* null, as the value of a number-valued field
Null == 0 - 4

IsNum(x) == x # Undef /\ x # NaN

Min(a, b) == IF a < b THEN a ELSE b
Max(a, b) == IF a > b THEN a ELSE b

\* a + b of JS numbers
Plus(a, b) == IF IsNum(a) /\ IsNum(b) THEN a + b ELSE NaN

\* a - b of JS numbers
Minus(a, b) == IF IsNum(a) /\ IsNum(b) THEN a - b ELSE NaN

\* a < b of JS numbers: false when either is NaN
Lt(a, b) == IsNum(a) /\ IsNum(b) /\ a < b

\* a > b of JS numbers: false when either is NaN
Gt(a, b) == IsNum(a) /\ IsNum(b) /\ a > b

\* ToInt32 of a byte-sized operand of a bitwise operator: undefined and NaN are 0
ToInt(x) == IF IsNum(x) THEN x ELSE 0

RECURSIVE BitAnd(_, _)
BitAnd(a, b) ==
  IF a = 0 \/ b = 0 THEN 0
  ELSE (a % 2) * (b % 2) + 2 * BitAnd(a \div 2, b \div 2)

\* x & mask for a non-negative x (a byte, or undefined)
JsAnd(x, mask) == BitAnd(ToInt(x), mask)

\* (hi << 8) | lo where lo is a byte or undefined
Shl8Or(hi, lo) == ToInt(hi) * 256 + ToInt(lo)

\* a % b of JS: the sign of the result is the sign of the dividend
JsRem(a, b) == IF a >= 0 THEN a % b ELSE 0 - ((0 - a) % b)

\* data[i] of a typed array: undefined outside 0..length-1 (and for a NaN index)
At(data, i) == IF IsNum(i) /\ i >= 0 /\ i < Len(data) THEN data[i + 1] ELSE Undef

\* TypedArray.prototype.subarray(begin, end): negative indices count from the
\* end, both are clamped to 0..length, and an empty view results when end <= begin
Subarray(data, begin, end) ==
  LET n == Len(data)
      rel(k) == IF ~IsNum(k) THEN 0 ELSE IF k < 0 THEN Max(n + k, 0) ELSE Min(k, n)
      b == rel(begin)
      e == rel(end)
  IN IF e <= b THEN <<>> ELSE SubSeq(data, b + 1, e)

RECURSIVE Concat(_)
Concat(frags) == IF frags = <<>> THEN <<>> ELSE Head(frags) \o Concat(Tail(frags))

RECURSIVE SumLen(_)
SumLen(frags) == IF frags = <<>> THEN 0 ELSE Len(Head(frags)) + SumLen(Tail(frags))

Fill(n, b) == [i \in 1..n |-> b]

\* F applied to the value of v: v is computed once, as an assignment to a
\* local variable computes its right-hand side once
Let(v, F(_)) == CHOOSE r \in {F(x) : x \in {v}} : TRUE

-----------------------------------------------------------------------------
(* 33-bit timestamps.  A JS number holds them exactly; here a timestamp t  *)
(* is the pair hi, lo with t = hi * 128 + lo and 0 <= lo < 128, so that    *)
(* every intermediate value fits the checker's integers.                   *)

NoStamp == [def |-> FALSE, hi |-> 0, lo |-> 0]
Stamp(hi, lo) == [def |-> TRUE, hi |-> hi, lo |-> lo]

\* a - b > limit, with limit = limHi * 128 + limLo
StampDiffGt(a, b, limHi, limLo) ==
  LET dh == a.hi - b.hi
      dl == a.lo - b.lo
      \* normalise the difference to nh * 128 + nl with 0 <= nl < 128
      nh == IF dl < 0 THEN dh - 1 ELSE dh
      nl == IF dl < 0 THEN dl + 128 ELSE dl
  IN nh > limHi \/ (nh = limHi /\ nl > limLo)

-----------------------------------------------------------------------------
(* Program constants                                                       *)

PacketSize == 188
SyncByte == 71
ScanLimit == 1000
HEVC == 36
AVC == 27
PesMergeLen == 19

-----------------------------------------------------------------------------
(* TS packet scanner: _syncOffset and probe                                *)

\* faulty variant of SyncTest: the third sync byte is not looked at
SyncTestTwoBytes(data, i) ==
  /\ At(data, i) = SyncByte
  /\ At(data, i + PacketSize) = SyncByte

\* the test of line 72: three sync bytes, one packet apart
SyncTest(data, i) ==
  /\ At(data, i) = SyncByte
  /\ At(data, i + PacketSize) = SyncByte
  /\ At(data, i + 2 * PacketSize) = SyncByte

\* line 69: the number of positions the search tries
ScanWindow(data) == Min(ScanLimit, Len(data) - 3 * PacketSize)

RECURSIVE SyncScan(_, _, _)
SyncScan(data, i, scanwindow) ==
  IF i < scanwindow
  THEN IF SyncTest(data, i)
       THEN i
       ELSE Let(<<data, i + 1, scanwindow>>, LAMBDA v : SyncScan(v[1], v[2], v[3]))
  ELSE 0 - 1

syncOffset(data) == SyncScan(data, 0, ScanWindow(data))

\* lines 57-64 of probe: the answer for the offset that _syncOffset returned
ProbeOf(offset) == ~(offset < 0)

probe(data) == ProbeOf(syncOffset(data))

-----------------------------------------------------------------------------
(* PAT and PMT parsers                                                     *)

parsePAT(data, offset) ==
  Shl8Or(JsAnd(At(data, Plus(offset, 10)), 31), At(data, Plus(offset, 11)))

\* the result object of _parsePMT as its first line builds it: it has no
\* property named audio, so result.audio reads undefined
PMTResultInit ==
  [aac |-> 0 - 1, videoPID |-> 0 - 1, videoStreamType |-> 0 - 1, id3 |-> 0 - 1,
   audio |-> Undef]

\* one entry of the mapping table: the switch on streamType
PMTEntry(result, streamType, pid) ==
  CASE streamType = 15 ->
         IF result.audio = 0 - 1 THEN [result EXCEPT !.audio = pid] ELSE result
    [] streamType = 21 ->
         IF result.id3 = 0 - 1 THEN [result EXCEPT !.id3 = pid] ELSE result
    [] streamType = 36 ->
         IF result.videoPID = 0 - 1
         THEN [result EXCEPT !.videoPID = pid, !.videoStreamType = streamType]
         ELSE result
    [] streamType = 27 ->
         IF result.videoPID = 0 - 1
         THEN [result EXCEPT !.videoPID = pid, !.videoStreamType = streamType]
         ELSE result
    [] OTHER -> result

RECURSIVE PMTLoop(_, _, _, _)
PMTLoop(data, offset, tableEnd, result) ==
  IF Lt(offset, tableEnd)
  THEN LET pid == Shl8Or(JsAnd(At(data, offset + 1), 31), At(data, offset + 2))
           streamType == At(data, offset)
           next == offset + Shl8Or(JsAnd(At(data, offset + 3), 15), At(data, offset + 4)) + 5
       IN Let(<<next, PMTEntry(result, streamType, pid)>>,
              LAMBDA v : PMTLoop(data, v[1], tableEnd, v[2]))
  ELSE result

parsePMT(data, offset) ==
  LET sectionLength == Shl8Or(JsAnd(At(data, Plus(offset, 1)), 15), At(data, Plus(offset, 2)))
      tableEnd == Minus(Plus(Plus(offset, 3), sectionLength), 4)
      programInfoLength ==
        Shl8Or(JsAnd(At(data, Plus(offset, 10)), 15), At(data, Plus(offset, 11)))
  IN Let(<<Plus(offset, 12 + programInfoLength), tableEnd>>,
         LAMBDA v : PMTLoop(data, v[1], v[2], PMTResultInit))

-----------------------------------------------------------------------------
(* PES parser.  A stream is an accumulator {data: [slices], size}.  The    *)
(* result is null, a PES {data, pts, dts, len}, or a thrown RangeError.    *)

PesNull == [err |-> "", null |-> TRUE, data |-> <<>>, pts |-> NoStamp, dts |-> NoStamp,
            len |-> Undef]
PesThrow(e) == [PesNull EXCEPT !.err = e]

\* the merge loop: while the first slice has fewer than 19 bytes and another
\* slice follows, the two are joined
RECURSIVE MergeHead(_)
MergeHead(data) ==
  IF Len(data[1]) < PesMergeLen /\ Len(data) > 1
  THEN Let(<<data[1] \o data[2]>> \o SubSeq(data, 3, Len(data)),
           LAMBDA merged : MergeHead(merged))
  ELSE data

\* faulty variant of ReadStamp: the mask of the first byte keeps the marker bit
ReadStampMarkerLeak(frag, k) ==
  LET hi == JsAnd(At(frag, k), 15) * 4194304
            + JsAnd(At(frag, k + 1), 255) * 32768
            + JsAnd(At(frag, k + 2), 254) * 128
            + JsAnd(At(frag, k + 3), 255)
      lo == JsAnd(At(frag, k + 4), 254) \div 2
  IN IF hi >= 33554432 THEN Stamp(hi - 67108864, lo) ELSE Stamp(hi, lo)

\* the five timestamp bytes at frag[k..k+4], then the wrap above 2^32 - 1.
\* In units of 128: (b & 0x0E) * 2^29 is (b & 0x0E) * 4194304 * 128, etc.
ReadStamp(frag, k) ==
  LET hi == JsAnd(At(frag, k), 14) * 4194304
            + JsAnd(At(frag, k + 1), 255) * 32768
            + JsAnd(At(frag, k + 2), 254) * 128
            + JsAnd(At(frag, k + 3), 255)
      lo == JsAnd(At(frag, k + 4), 254) \div 2
  IN IF hi >= 33554432 THEN Stamp(hi - 67108864, lo) ELSE Stamp(hi, lo)

\* faulty variant of PtsDtsTooFar: the limit is 128 ticks too high
PtsDtsTooFarLate(pts, dts) == StampDiffGt(pts, dts, 42188, 64)

\* pesPts - pesDts > 60*90000 (= 42187 * 128 + 64)
PtsDtsTooFar(pts, dts) == StampDiffGt(pts, dts, 42187, 64)

\* the reassembly loop: drop payloadStartOffset bytes from the head of the slices
RECURSIVE TrimHead(_, _)
TrimHead(data, pso) ==
  IF data = <<>> THEN <<>>
  ELSE LET frag == Head(data) IN
       IF IsNum(pso) /\ pso # 0
       THEN IF pso > Len(frag)
            THEN TrimHead(Tail(data), pso - Len(frag))
            ELSE Subarray(frag, pso, Len(frag)) \o TrimHead(Tail(data), 0)
       ELSE frag \o TrimHead(Tail(data), 0)

\* _parsePES once the head slices are merged: data is stream.data after the
\* merge loop
PesOfMerged(stream, data) ==
  LET frag == data[1]
      pesPrefix == Plus(ToInt(At(frag, 0)) * 65536 + ToInt(At(frag, 1)) * 256, At(frag, 2))
      pesLen == Plus(ToInt(At(frag, 4)) * 256, At(frag, 5))
      pesFlags == At(frag, 7)
      hasStamp == JsAnd(pesFlags, 192) # 0
      hasDts == JsAnd(pesFlags, 64) # 0
      pesHdrLen == At(frag, 8)
      payloadStartOffset == Plus(pesHdrLen, 9)
      size == Minus(stream.size, payloadStartOffset)
      alloc == IF IsNum(size) THEN size ELSE 0
      outLen == IF IsNum(pesLen) /\ pesLen # 0 THEN Minus(pesLen, Plus(pesHdrLen, 3)) ELSE pesLen
      \* v = <<pts read at 9, dts read at 14, reassembled payload>>
      Result(v) ==
        LET pts0 == v[1]
            dts0 == v[2]
            content == v[3]
            pesDts == IF ~hasStamp THEN NoStamp ELSE IF hasDts THEN dts0 ELSE pts0
            pesPts == IF ~hasStamp THEN NoStamp
                      ELSE IF hasDts /\ PtsDtsTooFar(pts0, dts0) THEN dts0 ELSE pts0
        IN IF alloc < 0 \/ Len(content) > alloc THEN PesThrow("RangeError")
           ELSE [err |-> "", null |-> FALSE,
                 data |-> content \o Fill(alloc - Len(content), 0),
                 pts |-> pesPts, dts |-> pesDts, len |-> outLen]
  IN IF pesPrefix # 1 THEN PesNull
     ELSE IF IsNum(pesLen) /\ pesLen # 0 /\ Gt(pesLen, Minus(stream.size, 6)) THEN PesNull
     ELSE Let(<<ReadStamp(frag, 9), ReadStamp(frag, 14), TrimHead(data, payloadStartOffset)>>,
              Result)

parsePES(stream) ==
  IF stream.size = 0 THEN PesNull
  ELSE Let(MergeHead(stream.data), LAMBDA data : PesOfMerged(stream, data))

-----------------------------------------------------------------------------
(* The demuxer object and the embedding                                    *)

\* a per-PID PES accumulator {data: [], size: 0}, or undefined (set = FALSE)
NoAcc == [set |-> FALSE, data |-> <<>>, size |-> 0]
NewAcc == [set |-> TRUE, data |-> <<>>, size |-> 0]
AccPush(acc, slice, n) == [acc EXCEPT !.data = Append(@, slice), !.size = Plus(@, n)]

\* the id values of RemuxerTrackIdConfig, which only createTrack reads
RemuxerTrackIdConfig == [video |-> 0, audio |-> 1, id3 |-> 2, text |-> 3]

\* static createTrack(type, duration); no method of the class calls it
createTrack(type) ==
  [type |-> type, id |-> RemuxerTrackIdConfig[type], pid |-> 0 - 1, samples |-> <<>>,
   len |-> 0]

\* the four track literals of resetInitSegment.  The video literal has the
\* properties PID and streamType and no property id (id reads undefined).
ResetVideoTrack ==
  [type |-> "video", id |-> Undef, PID |-> 0 - 1, streamType |-> 0 - 1, samples |-> <<>>,
   len |-> 0, nbNalu |-> 0, dropped |-> 0, vps |-> FALSE, sps |-> FALSE, pps |-> FALSE,
   codec |-> "", width |-> Undef, height |-> Undef, chromaFormatIdc |-> Undef,
   bitDepthLumaMinus8 |-> Undef, bitDepthChromaMinus8 |-> Undef]
ResetAacTrack == [type |-> "audio", id |-> 0 - 1, samples |-> <<>>, len |-> 0, codec |-> ""]
ResetId3Track == [type |-> "id3", id |-> 0 - 1, samples |-> <<>>, len |-> 0]
ResetTxtTrack == [type |-> "text", id |-> 0 - 1, samples |-> <<>>, len |-> 0]

\* no instance yet: every field unset
NoInstance ==
  [exists |-> FALSE, tracks |-> FALSE, forceKeyFrame |-> FALSE, lastCC |-> 0,
   contiguous |-> Undef, pmtParsed |-> FALSE, pmtId |-> Undef,
   videoTrack |-> ResetVideoTrack, aacTrack |-> ResetAacTrack,
   id3Track |-> ResetId3Track, txtTrack |-> ResetTxtTrack,
   aacOverFlow |-> <<>>, aacLastPTS |-> Undef, avcSample |-> FALSE,
   avcNaluState |-> Undef]

\* the constructor's assignments (observer, config, lastCC, remuxer, HEVC,
\* AVC): no track field, no PID field and no scanner state is assigned
constructor(forceKeyFrame) ==
  [NoInstance EXCEPT !.exists = TRUE, !.forceKeyFrame = forceKeyFrame, !.lastCC = 0]

\* faulty variant of resetInitSegment: the id3 track is not replaced
resetInitSegmentKeepsId3(this) ==
  [this EXCEPT !.tracks = TRUE, !.pmtParsed = FALSE, !.pmtId = 0 - 1,
               !.videoTrack = ResetVideoTrack, !.aacTrack = ResetAacTrack,
               !.txtTrack = ResetTxtTrack,
               !.aacOverFlow = <<>>, !.aacLastPTS = Null, !.avcSample = FALSE]

resetInitSegment(this) ==
  [this EXCEPT !.tracks = TRUE, !.pmtParsed = FALSE, !.pmtId = 0 - 1,
               !.videoTrack = ResetVideoTrack, !.aacTrack = ResetAacTrack,
               !.id3Track = ResetId3Track, !.txtTrack = ResetTxtTrack,
               !.aacOverFlow = <<>>, !.aacLastPTS = Null, !.avcSample = FALSE]

\* the names the file reads or assigns without declaring them, and the one
\* property (remuxerClass) the constructor reads that no code of the class sets
FreeNames ==
  <<"remuxerClass", "id", "contiguous", "audioId", "audioData", "id3Track",
    "audioTrack", "avcTrack", "accurateTimeOffset">>

Bound(h, name) == name \in h.bound

-----------------------------------------------------------------------------
(* HEVC: NAL scanner and PES payload parser                                *)

Unit(data, type, state) == [data |-> data, type |-> type, state |-> state]

\* the last NAL unit of the last sample of a track gets its data replaced
SetLastUnit(track, f(_), dlen) ==
  LET ns == Len(track.samples)
      smp == track.samples[ns]
      nu == Len(smp.units)
  IN [track EXCEPT !.samples[ns].units[nu].data = f(@),
                   !.samples[ns].length = @ + dlen,
                   !.len = @ + dlen]

\* first start code of the call: strip the bytes of a start code that began
\* in the previous PES, then move the bytes before it to the previous unit
HevcFirstUnit(s, this, i) ==
  LET lastState == this.avcNaluState
      track == this.videoTrack
      strip == /\ IsNum(lastState) /\ lastState # 0 /\ i <= 4 - lastState
               /\ Len(track.samples) > 0
               /\ LET smp == track.samples[Len(track.samples)]
                      st == smp.units[Len(smp.units)].state
                  IN IsNum(st) /\ st # 0
      track1 == IF strip
                THEN LET cut(d) == Subarray(d, 0, Len(d) - lastState)
                     IN SetLastUnit(track, cut, 0 - lastState)
                ELSE track
      overflow == i - s.state - 1
  IN IF overflow > 0
     THEN \* this._avcTrack is undefined: reading track.samples throws
          [s EXCEPT !.track = track1, !.err = "TypeError"]
     ELSE [s EXCEPT !.track = track1]

\* one turn of the while loop of _parseHEVCNALu from scanner state s; no
\* turn is taken once the loop has ended
HevcTurn(array, s, this) ==
  IF s.err # "" \/ ~(s.i < Len(array)) THEN s
  ELSE
  LET value == At(array, s.i)
      i == s.i + 1
      len == Len(array)
  IN CASE s.state = 0 ->
            [s EXCEPT !.i = i, !.state = IF value = 0 THEN 1 ELSE 0]
       [] s.state = 1 ->
            [s EXCEPT !.i = i, !.state = IF value = 0 THEN 2 ELSE 0]
       [] s.state = 2 \/ s.state = 3 ->
            IF value = 0 THEN [s EXCEPT !.i = i, !.state = 3]
            ELSE IF value = 1 /\ i < len
            THEN LET unitType == (At(array, i) \div 2) % 64
                     Started(s1) ==
                       [s1 EXCEPT !.i = i, !.lastUnitStart = i,
                                  !.lastUnitType = unitType, !.state = 0]
                 IN Let(IF IsNum(s.lastUnitStart) /\ s.lastUnitStart # 0
                        THEN [s EXCEPT !.units =
                                Append(@, Unit(Subarray(array, s.lastUnitStart,
                                                        i - s.state - 1),
                                               s.lastUnitType, Undef))]
                        ELSE HevcFirstUnit(s, [this EXCEPT !.videoTrack = s.track], i),
                        Started)
            ELSE [s EXCEPT !.i = i, !.state = 0]
       [] OTHER -> [s EXCEPT !.i = i]

\* n turns of the loop, taken as two halves
RECURSIVE HevcTurns(_, _, _, _)
HevcTurns(array, s, this, n) ==
  IF n = 0 THEN s
  ELSE IF n = 1 THEN HevcTurn(array, s, this)
  ELSE Let(<<array, HevcTurns(array, s, this, n \div 2), this, n - n \div 2>>,
           LAMBDA v : HevcTurns(v[1], v[2], v[3], v[4]))

\* the while loop: every turn reads one byte, so it ends within Len(array) turns
HevcScan(array, s, this) == HevcTurns(array, s, this, Len(array))

\* _parseHEVCNALu: the units found, the instance as the call leaves it, and
\* the exception thrown, if any
parseHEVCNALu(this, array) ==
  LET s0 == [i |-> 0, state |-> this.avcNaluState, units |-> <<>>,
             lastUnitStart |-> Undef, lastUnitType |-> Undef,
             track |-> this.videoTrack, err |-> ""]
      \* s is the scanner state when the loop ends
      Scanned(s) ==
        LET found == IsNum(s.lastUnitStart) /\ s.lastUnitStart # 0
            units == IF found
                     THEN Append(s.units, Unit(Subarray(array, s.lastUnitStart, Len(array)),
                                               s.lastUnitType, s.state))
                     ELSE s.units
        IN IF s.err # ""
           THEN [units |-> <<>>, this |-> [this EXCEPT !.videoTrack = s.track],
                 err |-> s.err]
           ELSE [units |-> units,
                 this |-> [this EXCEPT !.videoTrack = s.track,
                                       !.avcNaluState = IF found THEN s.state ELSE @],
                 err |-> ""]
  IN Let(HevcScan(array, s0, this), Scanned)

\* discardEPB, the while loop from index i: the positions of the 0x03 bytes
\* faulty variant: the loop stops one byte early
EpbScanStopsEarly(data, i, EPBPositions) ==
  LET length == Len(data)
  IN IF ~(i < length - 3) THEN [i |-> i, EPBPositions |-> EPBPositions, done |-> TRUE]
     ELSE IF data[i + 1] = 0 /\ data[i + 2] = 0 /\ data[i + 3] = 3
     THEN [i |-> i + 2, EPBPositions |-> Append(EPBPositions, i + 2), done |-> FALSE]
     ELSE [i |-> i + 1, EPBPositions |-> EPBPositions, done |-> FALSE]

\* one turn of the while loop of discardEPB
EpbScan(data, i, EPBPositions) ==
  LET length == Len(data)
  IN IF ~(i < length - 2) THEN [i |-> i, EPBPositions |-> EPBPositions, done |-> TRUE]
     ELSE IF data[i + 1] = 0 /\ data[i + 2] = 0 /\ data[i + 3] = 3
     THEN [i |-> i + 2, EPBPositions |-> Append(EPBPositions, i + 2), done |-> FALSE]
     ELSE [i |-> i + 1, EPBPositions |-> EPBPositions, done |-> FALSE]

RECURSIVE EpbFind(_, _)
EpbFind(data, t) ==
  IF t.done THEN t.EPBPositions
  ELSE Let(<<data, EpbScan(data, t.i, t.EPBPositions)>>, LAMBDA v : EpbFind(v[1], v[2]))

\* the for loop of discardEPB: newData[i] = data[sourceIndex]
RECURSIVE EpbCopy(_, _, _, _, _)
EpbCopy(data, newData, i, sourceIndex, EPBPositions) ==
  IF ~(i < Len(newData)) THEN newData
  ELSE LET skip == EPBPositions # <<>> /\ sourceIndex = Head(EPBPositions)
           src == IF skip THEN sourceIndex + 1 ELSE sourceIndex
           rest == IF skip THEN Tail(EPBPositions) ELSE EPBPositions
       IN Let(<<data, [newData EXCEPT ![i + 1] = ToInt(At(data, src))], i + 1, src + 1,
                rest>>,
              LAMBDA v : EpbCopy(v[1], v[2], v[3], v[4], v[5]))

\* discardEPB(data)
discardEPB(data) ==
  LET Found(EPBPositions) ==
        IF Len(EPBPositions) = 0 THEN data
        ELSE EpbCopy(data, Fill(Len(data) - Len(EPBPositions), 0), 0, 0, EPBPositions)
  IN Let(EpbFind(data, [i |-> 1, EPBPositions |-> <<>>, done |-> FALSE]), Found)

-----------------------------------------------------------------------------
(* HEVCSpsParser (hevc-sps-parser.js)                                      *)

RECURSIVE Pow2(_)
Pow2(n) == IF n = 0 THEN 1 ELSE 2 * Pow2(n - 1)

\* 1 << n on 32-bit integers: the count is taken modulo 32
Shl1(n) == IF n % 32 = 31 THEN 0 - Pow2(30) - Pow2(30) ELSE Pow2(n % 32)

\* the reader after the constructor; cache holds the four bytes of the 32-bit
\* field this.cache, the most significant first
NewReader(data) ==
  [data |-> data, bytesAvailable |-> Len(data), firstByte |-> 255,
   cache |-> <<0, 0, 0, 255>>, bitsInCache |-> 0]

\* getByte(): the next byte of the data, 0 when none is left
getByte(rd) ==
  LET position == Len(rd.data) - rd.bytesAvailable
      availableBytes == Min(1, rd.bytesAvailable)
  IN [rd |-> [rd EXCEPT !.bytesAvailable = @ - availableBytes],
      byte |-> IF availableBytes = 1 THEN rd.data[position + 1] ELSE 0]

\* one turn of the while loop of read: a byte 0x03 behind two zero bytes is
\* dropped and the byte after it taken
ReadTurn(rd) ==
  LET Fetched(g) ==
        LET Kept(g2) ==
              [g2.rd EXCEPT !.cache = <<rd.cache[2], rd.cache[3], rd.cache[4], rd.firstByte>>,
                            !.firstByte = g2.byte, !.bitsInCache = @ + 8]
        IN IF g.byte = 3 /\ rd.firstByte = 0 /\ rd.cache[4] = 0
           THEN Let(getByte(g.rd), Kept)
           ELSE Kept(g)
  IN Let(getByte(rd), Fetched)

RECURSIVE read(_, _)
read(rd, nbits) ==
  IF rd.bitsInCache < nbits
  THEN Let(<<ReadTurn(rd), nbits>>, LAMBDA v : read(v[1], v[2]))
  ELSE rd

\* skipBits(nbits)
skipBits(rd, nbits) ==
  Let(read(rd, nbits), LAMBDA r : [r EXCEPT !.bitsInCache = @ - nbits])

\* bit j (0 the least significant) of the 40 bits cache : firstByte
ReaderBit(rd, j) ==
  LET bytes == rd.cache \o <<rd.firstByte>>
  IN IF j > 39 THEN 0 ELSE (bytes[5 - (j \div 8)] \div Pow2(j % 8)) % 2

\* the low m bits of (firstByte >> shift) | (cache << (8 - shift))
RECURSIVE ReaderBits(_, _, _)
ReaderBits(rd, shift, m) ==
  IF m = 0 THEN 0
  ELSE ReaderBit(rd, shift + m - 1) * Pow2(m - 1) + ReaderBits(rd, shift, m - 1)

\* faulty variant of readBits: the bits are taken without the shift
readBitsNoShift(rd, nbits) ==
  LET Read(r) ==
        LET shift == r.bitsInCache - nbits
        IN [rd |-> [r EXCEPT !.bitsInCache = shift],
            val |-> ReaderBits(r, 0, nbits % 32)]
  IN Let(read(rd, nbits), Read)

\* readBits(nbits): the mask (1 << nbits) - 1 keeps nbits modulo 32 bits
readBits(rd, nbits) ==
  LET Read(r) ==
        LET shift == r.bitsInCache - nbits
        IN [rd |-> [r EXCEPT !.bitsInCache = shift],
            val |-> ReaderBits(r, shift, nbits % 32)]
  IN Let(read(rd, nbits), Read)

\* the while loop of readUE, after a first bit has been read into r: i counts
\* the zero bits.  When the data is used up every further bit reads 0 and
\* the loop does not end.
RECURSIVE UeZeros(_, _)
UeZeros(r, i) ==
  IF r.val # 0 THEN [rd |-> r.rd, i |-> i, err |-> ""]
  ELSE IF r.rd.bytesAvailable = 0 /\ r.rd.bitsInCache = 0
  THEN [rd |-> r.rd, i |-> i + 1, err |-> "hang"]
  ELSE Let(<<readBits(r.rd, 1), i + 1>>, LAMBDA v : UeZeros(v[1], v[2]))

\* readUE(): the reader after the call, the value, and whether the call ends
readUE(rd) ==
  LET Counted(z) ==
        IF z.err # "" THEN [rd |-> z.rd, val |-> 0, err |-> z.err]
        ELSE Let(readBits(z.rd, z.i),
                 LAMBDA r : [rd |-> r.rd, val |-> Shl1(z.i) - 1 + r.val, err |-> ""])
  IN Let(Let(<<readBits(rd, 1), 0>>, LAMBDA v : UeZeros(v[1], v[2])), Counted)

RECURSIVE SkipAll(_, _)
SkipAll(rd, widths) ==
  IF widths = <<>> THEN rd
  ELSE Let(<<skipBits(rd, Head(widths)), Tail(widths)>>, LAMBDA v : SkipAll(v[1], v[2]))

\* the two present flags of every sub-layer
RECURSIVE PtlFlags(_, _, _)
PtlFlags(rd, flags, n) ==
  IF n = 0 THEN [rd |-> rd, flags |-> flags]
  ELSE LET Two(a) ==
             Let(readBits(a.rd, 1),
                 LAMBDA b : <<b.rd, Append(flags, [profile |-> a.val, level |-> b.val]),
                              n - 1>>)
       IN Let(Let(readBits(rd, 1), Two), LAMBDA v : PtlFlags(v[1], v[2], v[3]))

RECURSIVE PtlSubLayers(_, _)
PtlSubLayers(rd, flags) ==
  IF flags = <<>> THEN rd
  ELSE LET f == Head(flags)
           Profile(r) == IF f.profile # 0
                         THEN SkipAll(r, <<2, 1, 5, 16, 16, 4, 16, 16, 12>>)
                         ELSE r
           Level(r) == IF f.level # 0 THEN skipBits(r, 8) ELSE r
       IN Let(<<Let(Let(rd, Profile), Level), Tail(flags)>>,
              LAMBDA v : PtlSubLayers(v[1], v[2]))

\* readProfileTierLevel(maxSubLayersMinus1)
readProfileTierLevel(rd, maxSubLayersMinus1) ==
  LET Flagged(r) ==
        LET Aligned(r2) == PtlSubLayers(r2, r.flags)
        IN Let(IF maxSubLayersMinus1 # 0
               THEN skipBits(r.rd, (8 - maxSubLayersMinus1) * 2)
               ELSE r.rd,
               Aligned)
      General(r) == Let(PtlFlags(r, <<>>, maxSubLayersMinus1), Flagged)
  IN Let(SkipAll(rd, <<2, 1, 5, 16, 16, 1, 1, 1, 1, 16, 16, 12, 8>>), General)

\* one statement of readSPSHEVC on the record c of the locals: a field read
\* by readBits or by readUE, the profile_tier_level, the separate colour plane
\* flag, and the conformance window, where this.skipUE is no method of the class
SpsStep(c, st) ==
  IF c.err # "" THEN c
  ELSE IF st.kind = "readBits"
  THEN Let(readBits(c.rd, st.n), LAMBDA r : [c EXCEPT !.rd = r.rd, ![st.field] = r.val])
  ELSE IF st.kind = "readUE"
  THEN Let(readUE(c.rd), LAMBDA r : [c EXCEPT !.rd = r.rd, ![st.field] = r.val, !.err = r.err])
  ELSE IF st.kind = "readProfileTierLevel"
  THEN [c EXCEPT !.rd = readProfileTierLevel(c.rd, c.maxSubLayersMinus1)]
  ELSE IF st.kind = "separateColourPlane"
  THEN IF c.chromaFormatIdc = 3 THEN [c EXCEPT !.rd = skipBits(c.rd, 1)] ELSE c
  ELSE IF c.conformanceWindowFlag = 1 THEN [c EXCEPT !.err = "TypeError"] ELSE c

RECURSIVE SpsSteps(_, _)
SpsSteps(c, sts) ==
  IF sts = <<>> THEN c
  ELSE Let(<<SpsStep(c, Head(sts)), Tail(sts)>>, LAMBDA v : SpsSteps(v[1], v[2]))

\* readSPSHEVC(): its statements in order
readSPSHEVC(rd) ==
  LET c0 == [rd |-> rd, err |-> "", nal |-> 0, vpsId |-> 0, maxSubLayersMinus1 |-> 0,
             tINf |-> 0, spsId |-> 0, chromaFormatIdc |-> 0, width |-> 0, height |-> 0,
             conformanceWindowFlag |-> 0, bitDepthLumaMinus8 |-> 0,
             bitDepthChromaMinus8 |-> 0]
      Bits(n, field) == [kind |-> "readBits", n |-> n, field |-> field]
      UE(field) == [kind |-> "readUE", n |-> 0, field |-> field]
      Other(kind) == [kind |-> kind, n |-> 0, field |-> ""]
  IN SpsSteps(c0, << Bits(8, "nal"), Bits(8, "nal"), Bits(4, "vpsId"),
                     Bits(3, "maxSubLayersMinus1"), Bits(1, "tINf"),
                     Other("readProfileTierLevel"), UE("spsId"), UE("chromaFormatIdc"),
                     Other("separateColourPlane"), UE("width"), UE("height"),
                     Bits(1, "conformanceWindowFlag"), Other("conformanceWindow"),
                     UE("bitDepthLumaMinus8"), UE("bitDepthChromaMinus8") >>)

\* NAL types that set key = true in _parseHEVCPES
HevcKeyTypes == {1, 3, 5, 7, 9, 19, 20, 21}
\* NAL types with push = true
HevcPushTypes == (0..9) \cup (16..21) \cup {32, 33, 34} \cup (36..40)

\* faulty variant of pushAccesUnit: track.sps is not looked at
pushAccesUnitNoSps(this, g, pes) ==
  IF g.units2 # <<>>
  THEN IF ~this.forceKeyFrame \/ g.key
       THEN [this EXCEPT
               !.videoTrack.samples =
                  Append(@, [units |-> g.units2, length |-> g.length, pts |-> pes.pts,
                             dts |-> pes.dts, key |-> g.key]),
               !.videoTrack.len = @ + g.length,
               !.videoTrack.nbNalu = @ + Len(g.units2)]
       ELSE [this EXCEPT !.videoTrack.dropped = @ + 1]
  ELSE this

\* the closure pushAccesUnit of _parseHEVCPES; g holds units2, length and key
pushAccesUnitHEVC(this, g, pes) ==
  IF g.units2 # <<>>
  THEN IF ~this.forceKeyFrame \/ g.key \/ this.videoTrack.sps
       THEN [this EXCEPT
               !.videoTrack.samples =
                  Append(@, [units |-> g.units2, length |-> g.length, pts |-> pes.pts,
                             dts |-> pes.dts, key |-> g.key]),
               !.videoTrack.len = @ + g.length,
               !.videoTrack.nbNalu = @ + Len(g.units2)]
       ELSE [this EXCEPT !.videoTrack.dropped = @ + 1]
  ELSE this

\* faulty variant of HevcAppendToLast: track.len is not increased
HevcAppendNoTrackLen(this, units, pes) ==
  IF Len(units) = 0 /\ Len(this.videoTrack.samples) > 0
  THEN LET app(d) == d \o pes.data
           t == SetLastUnit(this.videoTrack, app, Len(pes.data))
       IN [this EXCEPT !.videoTrack = [t EXCEPT !.len = this.videoTrack.len]]
  ELSE this

\* the no-NALu branch: the whole payload is appended to the last unit
HevcAppendToLast(this, units, pes) ==
  IF Len(units) = 0 /\ Len(this.videoTrack.samples) > 0
  THEN LET app(d) == d \o pes.data
       IN [this EXCEPT !.videoTrack = SetLastUnit(@, app, Len(pes.data))]
  ELSE this

\* the forEach of _parseHEVCPES from the unit Head(units) on; an exception of
\* the SPS parser leaves the loop
RECURSIVE HevcUnits(_, _, _, _)
HevcUnits(this, g, units, pes) ==
  IF units = <<>> THEN [this |-> this, g |-> g, err |-> ""]
  ELSE
  LET unit == Head(units)
      t == unit.type
      key == g.key \/ t \in HevcKeyTypes
      Step(config) ==
        LET this1 == CASE t = 32 -> [this EXCEPT !.videoTrack.vps = TRUE]
                       [] t = 33 /\ config.err # "" ->
                            [this EXCEPT !.videoTrack.sps = TRUE]
                       [] t = 33 /\ config.err = "" ->
                            [this EXCEPT
                               !.videoTrack.sps = TRUE,
                               !.videoTrack.width = config.width,
                               !.videoTrack.height = config.height,
                               !.videoTrack.codec = "hev1.1.6.L93.B0",
                               !.videoTrack.chromaFormatIdc = config.chromaFormatIdc,
                               !.videoTrack.bitDepthLumaMinus8 = config.bitDepthLumaMinus8,
                               !.videoTrack.bitDepthChromaMinus8 =
                                  config.bitDepthChromaMinus8]
                       [] t = 34 -> [this EXCEPT !.videoTrack.pps = TRUE]
                       [] t = 35 -> pushAccesUnitHEVC(this, g, pes)
                       [] OTHER -> this
            g1 == IF t = 35 /\ g.units2 # <<>>
                  THEN [g EXCEPT !.units2 = <<>>, !.length = 0]
                  ELSE g
            g2 == IF t \in HevcPushTypes
                  THEN [g1 EXCEPT !.units2 = Append(@, unit), !.length = @ + Len(unit.data),
                                  !.key = key]
                  ELSE [g1 EXCEPT !.key = key]
        IN IF config.err # ""
           THEN [this |-> this1, g |-> g, err |-> config.err]
           ELSE Let(<<this1, g2, Tail(units), pes>>,
                    LAMBDA v : HevcUnits(v[1], v[2], v[3], v[4]))
  IN Let(IF t = 33 THEN readSPSHEVC(NewReader(unit.data)) ELSE [err |-> ""], Step)

\* _parseHEVCPES(pes): the instance after the call and the exception, if any
parseHEVCPES(this, pes) ==
  IF pes.null THEN [this |-> this, err |-> "TypeError"]
  ELSE
  LET \* r is the instance and the closure's variables after the forEach
      Walked(r) == IF r.err # "" THEN [this |-> r.this, err |-> r.err]
                   ELSE [this |-> pushAccesUnitHEVC(r.this, r.g, pes), err |-> ""]
      Scanned(nal) ==
        IF nal.err # "" THEN [this |-> nal.this, err |-> nal.err]
        ELSE Let(<<HevcAppendToLast(nal.this, nal.units, pes), nal.units, pes>>,
                 LAMBDA v : Let(HevcUnits(v[1],
                                          [units2 |-> <<>>, length |-> 0, key |-> FALSE],
                                          v[2], v[3]),
                                Walked))
  IN Let(parseHEVCNALu(this, pes.data), Scanned)

\* this._avcTrack: no code assigns the field, it reads as undefined unless a
\* caller of the class has put a track there
HasAvcTrack(this) == "avcTrack" \in DOMAIN this

\* _parseAVCNALu, one turn of the while loop on the scan record s
\* (i, state, lastUnitStart, lastUnitType, units, err)
AvcTurn(s, array) ==
  LET len == Len(array)
      value == array[s.i + 1]
      i == s.i + 1
  IN IF s.state = 0
     THEN [s EXCEPT !.i = i, !.state = IF value # 0 THEN 0 ELSE 1]
     ELSE IF s.state = 1
     THEN [s EXCEPT !.i = i, !.state = IF value # 0 THEN 0 ELSE 2]
     ELSE IF value = 0
     THEN [s EXCEPT !.i = i, !.state = 3]
     ELSE IF value = 1
     THEN IF s.lastUnitStart >= 0
          THEN LET unit == [data |-> Subarray(array, s.lastUnitStart, i - s.state - 1),
                            type |-> s.lastUnitType, state |-> Undef]
                   s1 == [s EXCEPT !.i = i, !.units = Append(@, unit)]
               IN IF i < len
                  THEN [s1 EXCEPT !.lastUnitStart = i, !.lastUnitType = array[i + 1] % 32,
                                  !.state = 0]
                  ELSE \* not enough bytes to read the unit type
                       [s1 EXCEPT !.state = 0 - 1]
          ELSE \* the first start code of the buffer: this._getLastNalUnit is
               \* called, a method the class does not define
               [s EXCEPT !.i = i, !.err = "TypeError"]
     ELSE [s EXCEPT !.i = i, !.state = 0]

RECURSIVE AvcScan(_, _)
AvcScan(s, array) ==
  IF s.err # "" \/ ~(s.i < Len(array)) THEN s
  ELSE Let(<<AvcTurn(s, array), array>>, LAMBDA v : AvcScan(v[1], v[2]))

\* _parseAVCNALu(array): the units found in array; the scanner state is read
\* from and left in the naluState field of this._avcTrack
parseAVCNALu(this, array) ==
  LET len == Len(array)
      Failed == [this |-> this, units |-> <<>>, err |-> "TypeError"]
      Scanned(s) ==
        LET units == IF s.lastUnitStart >= 0 /\ s.state >= 0
                     THEN Append(s.units,
                                 [data |-> Subarray(array, s.lastUnitStart, len),
                                  type |-> s.lastUnitType, state |-> s.state])
                     ELSE s.units
        IN IF s.err # "" THEN Failed
           ELSE IF Len(units) = 0
           THEN \* no unit found: this._getLastNalUnit is called
                Failed
           ELSE [this |-> [this EXCEPT !.avcTrack.naluState = s.state],
                 units |-> units, err |-> ""]
  IN IF ~HasAvcTrack(this)
     THEN \* track.naluState of an undefined track
          Failed
     ELSE LET track == this.avcTrack
              state == IF track.naluState = Undef THEN 0 ELSE track.naluState
              s0 == [i |-> 0, state |-> state, lastUnitStart |-> 0 - 1,
                     lastUnitType |-> Undef, units |-> <<>>, err |-> ""]
              s1 == IF state = 0 - 1
                    THEN \* the start code ended the previous buffer: the unit
                         \* type is the byte at offset 0
                         [s0 EXCEPT !.lastUnitStart = 0,
                                    !.lastUnitType = IF len > 0 THEN array[1] % 32 ELSE 0,
                                    !.state = 0, !.i = 1]
                    ELSE s0
          IN Let(Let(<<s1, array>>, LAMBDA v : AvcScan(v[1], v[2])), Scanned)

\* _parseAVCPES(pes): the initialiser of units reads pes.data and calls
\* _parseAVCNALu, whose first line reads track.naluState of this._avcTrack,
\* a field nothing assigns
parseAVCPES(this, pes) == [this |-> this, err |-> "TypeError"]

\* faulty variant of _parseID3PES: the PES is put in front of the list
parseID3PESFront(this, pes) ==
  [this EXCEPT !.id3Track.samples =
     <<[data |-> pes.data, pts |-> pes.pts, dts |-> pes.dts, len |-> pes.len]>> \o @]

parseID3PES(this, pes) ==
  [this EXCEPT !.id3Track.samples =
     Append(@, [data |-> pes.data, pts |-> pes.pts, dts |-> pes.dts, len |-> pes.len])]

-----------------------------------------------------------------------------
(* push(data, ...).  The call is the record c: the instance (this), the    *)
(* embedding (host), the locals of push, the log of what the call did to   *)
(* the observer and the remuxer, and the exception that ended it (err).    *)

\* the data object of an observer event; only ERROR events carry one
NoData == [type |-> "", details |-> "", fatal |-> FALSE]

Event(ev, what) == [ev |-> ev, what |-> what, data |-> NoData]

\* the object of line 280: ErrorTypes.MEDIA_ERROR, ErrorDetails.FRAG_PARSING_ERROR
SyncLossData == [type |-> "mediaError", details |-> "fragParsingError", fatal |-> FALSE]

Throw(c, e) == [c EXCEPT !.err = e]
Emit(c, ev, what) == [c EXCEPT !.log = Append(@, Event(ev, what))]

\* this.observer.trigger(Event.ERROR, data)
EmitError(c, data, reason) ==
  [c EXCEPT !.log = Append(@, [Event("ERROR", reason) EXCEPT !.data = data])]
Live(c) == c.err = "" /\ ~c.ret

\* ADTS.isHeader(data, offset): the syncword 0xFFFx, which needs two bytes
AdtsIsHeader(data, offset) ==
  /\ offset + 1 < Len(data)
  /\ At(data, offset) = 255
  /\ JsAnd(At(data, offset + 1), 240) = 240

\* lines 1201-1205: look for ADTS header; the offset at which the loop stops
RECURSIVE AacHeaderScan(_, _)
AacHeaderScan(data, offset) ==
  IF offset < Len(data) - 1
  THEN IF AdtsIsHeader(data, offset) THEN offset
       ELSE Let(<<data, offset + 1>>, LAMBDA v : AacHeaderScan(v[1], v[2]))
  ELSE offset

\* lines 1207-1222: the error the header search raises
AacHeaderError(data) ==
  LET offset == AacHeaderScan(data, 0)
  IN IF offset = 0 THEN "none"
     ELSE IF offset < Len(data) - 1 THEN "misaligned" ELSE "fatal"

\* the data objects of the two errors of _parseAACPES
AdtsData(fatal) == [type |-> "mediaError", details |-> "fragParsingError", fatal |-> fatal]

\* _parseAACPES(pes): the events triggered and the exception thrown.  A null
\* pes throws at pes.data.  Pending overflow bytes are put before the payload.
\* When the search does not end in the fatal error, ADTS.initTrackConfig gets
\* this._audioTrack, a field nothing assigns, and throws on its first property
parseAACPES(this, pes) ==
  IF pes.null THEN [this |-> this, log |-> <<>>, err |-> "TypeError"]
  ELSE
  LET Searched(e) ==
        CASE e = "fatal" ->
               [this |-> this,
                log |-> <<[Event("ERROR", "no ADTS header found in AAC PES")
                             EXCEPT !.data = AdtsData(TRUE)]>>,
                err |-> ""]
          [] e = "misaligned" ->
               [this |-> this,
                log |-> <<[Event("ERROR", "AAC PES did not start with ADTS header")
                             EXCEPT !.data = AdtsData(FALSE)]>>,
                err |-> "TypeError"]
          [] OTHER -> [this |-> this, log |-> <<>>, err |-> "TypeError"]
  IN Let(AacHeaderError(this.aacOverFlow \o pes.data), Searched)

\* this.remux(level, sn, data) of the codecsOnly branches
remuxCodecsOnly(c) == [Emit(c, "remux", "codecsOnly") EXCEPT !.ret = TRUE]

\* lines 186-207: close the video accumulator at a payload-unit start
VideoClose(c) ==
  LET c1 == Emit(c, "parsePES", "video")
      \* r is what the PES payload parser returned
      Parsed(r) ==
        LET c2 == Emit([c1 EXCEPT !.this = r.this], "parseVideoPES", "video")
        IN IF r.err # "" THEN Throw(c2, r.err)
           ELSE IF /\ c2.codecsOnly
                   /\ c2.this.videoTrack.codec # ""
                   /\ (c2.aacId = 0 - 1 \/ c2.this.aacTrack.codec # "")
           THEN remuxCodecsOnly(c2)
           ELSE c2
      Read(pesData) ==
        IF pesData.err # "" THEN Throw(c1, pesData.err)
        ELSE IF c.videoStreamType = HEVC \/ c.videoStreamType = AVC
        THEN Let(IF c.videoStreamType = HEVC
                 THEN parseHEVCPES(c.this, pesData)
                 ELSE parseAVCPES(c.this, pesData),
                 Parsed)
        ELSE \* logger.error('unsupported video stream type'); return
             [c1 EXCEPT !.ret = TRUE]
  IN Let(parsePES(c.videoData), Read)

\* case videoPID
VideoCase(c, data, stt, offset) ==
  LET Open(c0) == IF Live(c0) THEN [c0 EXCEPT !.videoData = NewAcc] ELSE c0
      Store(c1) ==
        IF Live(c1) /\ c1.videoData.set
        THEN [c1 EXCEPT !.videoData =
                AccPush(@, Subarray(data, offset, c.start + PacketSize),
                        Minus(c.start + PacketSize, offset))]
        ELSE c1
  IN IF stt
     THEN IF c.videoData.set
          THEN Let(VideoClose(c), LAMBDA c0 : Store(Open(c0)))
          ELSE Store(Open(c))
     ELSE Store(c)

\* case audioId: aacData is declared and never assigned, so the PES parse of
\* the branch is never entered; audioData is a global of the embedding
AudioCase(c, data, stt, offset) ==
  IF ~Bound(c.host, "audioData") THEN Throw(c, "ReferenceError")
  ELSE
  LET c1 == IF stt THEN [c EXCEPT !.host.audioData = NewAcc] ELSE c
  IN IF c1.host.audioData.set
     THEN [c1 EXCEPT !.host.audioData =
             AccPush(@, Subarray(data, offset, c.start + PacketSize),
                     Minus(c.start + PacketSize, offset))]
     ELSE c1

\* lines 238-243: close the id3 accumulator at a payload-unit start
Id3Close(c) ==
  LET cp == Emit(c, "parsePES", "id3")
      Read(pes) ==
        IF pes.err # "" THEN Throw(cp, pes.err)
        ELSE IF ~pes.null
        THEN Emit([cp EXCEPT !.this = parseID3PES(@, pes)], "parseID3PES", "id3")
        ELSE cp
  IN Let(parsePES(c.id3Data), Read)

\* case id3Id
Id3Case(c, data, stt, offset) ==
  LET Open(c0) == IF Live(c0) THEN [c0 EXCEPT !.id3Data = NewAcc] ELSE c0
      Store(c1) ==
        IF Live(c1) /\ c1.id3Data.set
        THEN [c1 EXCEPT !.id3Data =
                AccPush(@, Subarray(data, offset, c.start + PacketSize),
                        Minus(c.start + PacketSize, offset))]
        ELSE c1
  IN IF stt
     THEN IF c.id3Data.set
          THEN Let(Id3Close(c), LAMBDA c0 : Store(Open(c0)))
          ELSE Store(Open(c))
     ELSE Store(c)

\* the pointer_field skip of the PSI cases: offset += data[offset] + 1
PsiOffset(data, stt, offset) ==
  IF stt THEN Plus(offset, Plus(At(data, offset), 1)) ELSE offset

\* case 0
PatCase(c, data, stt, offset) ==
  LET id == parsePAT(data, PsiOffset(data, stt, offset))
  IN [c EXCEPT !.pmtId = id, !.this.pmtId = id]

\* faulty variant of PmtRewind: the rewind does not depend on unknownPIDs
PmtRewindAlways(c) ==
  IF ~c.pmtParsed
  THEN [Emit(c, "rewind", "pmt") EXCEPT
          !.unknownPIDs = FALSE, !.start = c.syncOffset - PacketSize]
  ELSE c

\* lines 262-268: reparse from the beginning when packets of unknown PIDs
\* came before the first PMT of the call
PmtRewind(c) ==
  IF c.unknownPIDs /\ ~c.pmtParsed
  THEN [Emit(c, "rewind", "pmt") EXCEPT
          !.unknownPIDs = FALSE, !.start = c.syncOffset - PacketSize]
  ELSE c

\* case pmtId
PmtCase(c, data, stt, offset) ==
  LET Mapped(parsedPIDs) ==
        LET c1 == [c EXCEPT !.videoPID = parsedPIDs.videoPID,
                            !.this.videoTrack.PID = parsedPIDs.videoPID,
                            !.videoStreamType = parsedPIDs.videoStreamType,
                            !.this.videoTrack.streamType = parsedPIDs.videoStreamType,
                            !.aacId = parsedPIDs.aac,
                            !.this.aacTrack.id = parsedPIDs.aac,
                            !.id3Id = parsedPIDs.id3,
                            !.this.id3Track.id = parsedPIDs.id3]
        IN Let(c1, LAMBDA c2 :
                 [Emit(PmtRewind(c2), "parsePMT", "pmt") EXCEPT
                    !.pmtParsed = TRUE, !.this.pmtParsed = TRUE])
  IN Let(parsePMT(data, PsiOffset(data, stt, offset)), Mapped)

\* the switch on pid: the case expressions are compared in source order, and
\* evaluating the second one, audioId, throws when the embedding does not bind it
Dispatch(c, data, pid, stt, offset) ==
  IF pid = c.videoPID THEN VideoCase(c, data, stt, offset)
  ELSE IF ~Bound(c.host, "audioId") THEN Throw(c, "ReferenceError")
  ELSE IF pid = c.host.audioId THEN AudioCase(c, data, stt, offset)
  ELSE IF pid = c.id3Id THEN Id3Case(c, data, stt, offset)
  ELSE IF pid = 0 THEN PatCase(c, data, stt, offset)
  ELSE IF pid = c.pmtId THEN PmtCase(c, data, stt, offset)
  ELSE IF pid = 17 \/ pid = 8191 THEN c
  ELSE [Emit(c, "unknownPID", "default") EXCEPT !.unknownPIDs = TRUE]

\* faulty variant of Packet: a packet without sync byte ends the call
PacketSyncLossFatal(c, data) ==
  LET start == c.start IN
  IF At(data, start) = SyncByte
  THEN LET stt == JsAnd(At(data, start + 1), 64) # 0
           pid == Plus(JsAnd(At(data, start + 1), 31) * 256, At(data, start + 2))
           atf == JsAnd(At(data, start + 3), 48) \div 16
           offset == IF atf > 1 THEN Plus(start + 5, At(data, start + 4)) ELSE start + 4
       IN IF atf > 1 /\ offset = start + PacketSize
          THEN Emit(c, "packet", "sync")
          ELSE Let(<<Emit(c, "packet", "sync"), data, pid, stt, offset>>,
                   LAMBDA v : Dispatch(v[1], v[2], v[3], v[4], v[5]))
  ELSE [EmitError(c, SyncLossData, "TS packet did not start with 0x47") EXCEPT !.ret = TRUE]

\* one turn of the packet loop, for the packet at c.start
Packet(c, data) ==
  LET start == c.start IN
  IF At(data, start) = SyncByte
  THEN LET stt == JsAnd(At(data, start + 1), 64) # 0
           pid == Plus(JsAnd(At(data, start + 1), 31) * 256, At(data, start + 2))
           atf == JsAnd(At(data, start + 3), 48) \div 16
           offset == IF atf > 1 THEN Plus(start + 5, At(data, start + 4)) ELSE start + 4
       IN IF atf > 1 /\ offset = start + PacketSize
          THEN Emit(c, "packet", "sync")
          ELSE Let(<<Emit(c, "packet", "sync"), data, pid, stt, offset>>,
                   LAMBDA v : Dispatch(v[1], v[2], v[3], v[4], v[5]))
  ELSE EmitError(c, SyncLossData, "TS packet did not start with 0x47")

\* one turn of the for loop: the body, then start += 188
LoopTurn(c, data) ==
  Let(Packet(c, data), LAMBDA c1 : [c1 EXCEPT !.start = @ + PacketSize])

RECURSIVE PacketLoop(_, _)
PacketLoop(c, data) ==
  IF Live(c) /\ c.start < c.len
  THEN Let(<<LoopTurn(c, data), data>>, LAMBDA w : PacketLoop(w[1], w[2]))
  ELSE c

\* lines 283-295: parse last PES packet (video)
FlushVideo(c) ==
  IF ~c.videoData.set THEN c
  ELSE
  LET c1 == Emit(c, "parsePES", "video")
      Parsed(r) ==
        LET c2 == Emit([c1 EXCEPT !.this = r.this], "parseVideoPES", "video")
        IN IF r.err # "" THEN Throw(c2, r.err) ELSE c2
      Read(pes) ==
        IF pes.err # "" THEN Throw(c1, pes.err)
        ELSE IF c.videoStreamType = HEVC \/ c.videoStreamType = AVC
        THEN Let(IF c.videoStreamType = HEVC
                 THEN parseHEVCPES(c.this, pes)
                 ELSE parseAVCPES(c.this, pes),
                 Parsed)
        ELSE c1
  IN Let(parsePES(c.videoData), Read)

\* lines 297-303: the id3 flush; id3Track is a global of the embedding
FlushId3(c) ==
  LET c1 == IF c.id3Data.set THEN Emit(c, "parsePES", "id3") ELSE c
      Read(pes) ==
        IF pes.err # "" THEN Throw(c1, pes.err)
        ELSE IF c.id3Data.set /\ ~pes.null
        THEN LET c2 == Emit([c1 EXCEPT !.this = parseID3PES(@, pes)],
                            "parseID3PES", "id3")
             IN IF Bound(c.host, "id3Track")
                THEN [c2 EXCEPT !.host.id3TrackPesData = NoAcc]
                ELSE Throw(c2, "ReferenceError")
        ELSE IF Bound(c.host, "id3Track")
             THEN [c1 EXCEPT !.host.id3TrackPesData = c.id3Data]
             ELSE Throw(c1, "ReferenceError")
  IN Let(IF c.id3Data.set THEN parsePES(c.id3Data) ELSE PesNull, Read)

\* lines 305-309: this.sampleAes is never set, so remuxer.remux is called;
\* its arguments are evaluated left to right
RemuxArgs == <<"audioTrack", "avcTrack", "id3Track", "contiguous", "accurateTimeOffset">>

Remux(c) ==
  IF \E k \in 1..Len(RemuxArgs) : ~Bound(c.host, RemuxArgs[k])
  THEN Throw(c, "ReferenceError")
  ELSE Emit(c, "remux", "audioTrack,avcTrack,id3Track,_txtTrack")

\* the argument contiguous of the remux call of line 306: the identifier
\* resolves to the global of the embedding, as it does at line 144
RemuxContiguous(c) == c.host.contiguous

\* lines 283-309: what push does once the packet loop has ended in state c
PushEnd(c) ==
  LET Id3Flushed(c5) == IF Live(c5) THEN Remux(c5) ELSE c5
      VideoFlushed(c4) == IF Live(c4) THEN Let(FlushId3(c4), Id3Flushed) ELSE c4
  IN IF Live(c)
     THEN Let(Emit(c, "loopEnd", "push"),
              LAMBDA c3 : Let(FlushVideo(c3), VideoFlushed))
     ELSE c

\* lines 140-164 of push: the locals as the packet loop finds them
PushStart(this, h, data) ==
  LET c0 == [this |-> this, host |-> h, log |-> <<>>, err |-> "", ret |-> FALSE,
             codecsOnly |-> h.passthrough, unknownPIDs |-> FALSE,
             videoData |-> NoAcc, id3Data |-> NoAcc,
             pmtParsed |-> FALSE, videoPID |-> Undef, videoStreamType |-> Undef,
             aacId |-> Undef, id3Id |-> Undef, pmtId |-> Undef,
             syncOffset |-> 0, start |-> 0, len |-> 0]
  IN IF ~Bound(h, "contiguous") THEN Throw(c0, "ReferenceError")
     ELSE
     LET c1 == [c0 EXCEPT !.this.contiguous = h.contiguous]
     IN IF ~this.tracks THEN Throw(c1, "TypeError")
        ELSE
        LET Synced(sync) ==
              [c1 EXCEPT !.pmtParsed = this.pmtParsed,
                         !.videoPID = this.videoTrack.PID,
                         !.videoStreamType = this.videoTrack.streamType,
                         !.aacId = this.aacTrack.id,
                         !.id3Id = this.id3Track.id,
                         !.pmtId = this.pmtId,
                         !.syncOffset = sync,
                         !.start = sync,
                         !.len = Len(data) - JsRem(Len(data) + sync, PacketSize)]
        IN Let(syncOffset(data), Synced)

\* push(data, audioCodec, videoCodec, timeOffset, cc, level, sn, duration)
push(this, h, data) ==
  Let(<<PushStart(this, h, data), data>>,
      LAMBDA v : Let(PacketLoop(v[1], v[2]), PushEnd))

-----------------------------------------------------------------------------
(* Inputs: TS packets and buffers, built byte by byte                      *)

\* the PIDs of the streams the inputs carry
Pid == [pmt |-> 256, video |-> 257, audio |-> 258, id3 |-> 259, other |-> 300,
        null |-> 8191]

\* the 4-byte TS header
TsHeader(pid, pusi, afc) ==
  <<SyncByte, (IF pusi THEN 64 ELSE 0) + pid \div 256, pid % 256, afc * 16>>

\* a packet whose payload ends at the packet's end; an adaptation field of
\* stuffing bytes fills the room before it
TsPacket(pid, pusi, payload) ==
  LET n == Len(payload) IN
  IF n = PacketSize - 4 THEN TsHeader(pid, pusi, 1) \o payload
  ELSE LET aflen == PacketSize - 5 - n
       IN TsHeader(pid, pusi, 3) \o <<aflen>>
          \o (IF aflen > 0 THEN <<0>> \o Fill(aflen - 1, 255) ELSE <<>>)
          \o payload

\* a packet that carries an adaptation field of the given length byte and
\* then whatever payload room is left, filled with the byte b
TsPacketAf(pid, pusi, aflen, b) ==
  LET head == TsHeader(pid, pusi, 3) \o <<aflen>>
      af == IF aflen > 0 THEN <<0>> \o Fill(Min(aflen, PacketSize - 5) - 1, 255) ELSE <<>>
  IN head \o af \o Fill(PacketSize - Len(head) - Len(af), b)

\* a PSI packet: pointer_field 0, the section, 0xFF up to the packet's end
PsiPacket(pid, section) ==
  TsHeader(pid, TRUE, 1) \o <<0>> \o section
  \o Fill(PacketSize - 5 - Len(section), 255)

PatSection(pmtPid) ==
  <<0, 176, 13, 0, 1, 193, 0, 0, 0, 1, 224 + pmtPid \div 256, pmtPid % 256, 0, 0, 0, 0>>

\* one PMT entry: stream_type, elementary PID, ES_info_length and descriptors
PmtEntryBytes(e) ==
  <<e.type, 224 + e.pid \div 256, e.pid % 256, 240 + e.es \div 256, e.es % 256>>
  \o Fill(e.es, 10)

RECURSIVE PmtEntriesBytes(_)
PmtEntriesBytes(es) ==
  IF es = <<>> THEN <<>> ELSE PmtEntryBytes(Head(es)) \o PmtEntriesBytes(Tail(es))

PmtSection(pil, entries) ==
  LET body == PmtEntriesBytes(entries)
      sl == 9 + pil + Len(body) + 4
  IN <<2, 176 + sl \div 256, sl % 256, 0, 1, 193, 0, 0, 225, 0, 240 + pil \div 256,
       pil % 256>>
     \o Fill(pil, 5) \o body \o <<0, 0, 0, 0>>

\* the five bytes of a 33-bit timestamp hi * 128 + lo: the 4-bit prefix, bits
\* 32..30, marker, bits 29..15, marker, bits 14..0, marker
StampBytes(prefix, hi, lo, m1, m2, m3) ==
  <<prefix * 16 + ((hi \div 8388608) % 8) * 2 + m1,
    (hi \div 32768) % 256,
    ((hi \div 256) % 128) * 2 + m2,
    hi % 256,
    lo * 2 + m3>>

\* a PES packet: start code, stream id, length, flags, header length, the
\* optional fields (timestamps), the payload
PesBytes(prefix3, streamId, pesLen, flags, optional, payload) ==
  prefix3 \o <<streamId, pesLen \div 256, pesLen % 256, 128, flags, Len(optional)>>
  \o optional \o payload

PtsOnly(hi, lo) == StampBytes(2, hi, lo, 1, 1, 1)

\* the packets the buffers are made of
PktPAT == PsiPacket(0, PatSection(Pid.pmt))
PktPMT ==
  PsiPacket(Pid.pmt, PmtSection(0, << [type |-> HEVC, pid |-> Pid.video, es |-> 0],
                                      [type |-> 15, pid |-> Pid.audio, es |-> 0],
                                      [type |-> 21, pid |-> Pid.id3, es |-> 0] >>))
PktPMTavc ==
  PsiPacket(Pid.pmt, PmtSection(0, << [type |-> AVC, pid |-> Pid.video, es |-> 0] >>))
\* a video PES start: PTS 90000 (= 703 * 128 + 16), one IDR_W_RADL NAL unit
PktVideoStart ==
  TsPacket(Pid.video, TRUE,
           PesBytes(<<0, 0, 1>>, 224, 0, 128, PtsOnly(703, 16), <<0, 0, 1, 38, 1, 175>>))
\* a video PES start whose declared length exceeds what the packet holds
PktVideoTrunc ==
  TsPacket(Pid.video, TRUE,
           PesBytes(<<0, 0, 1>>, 224, 400, 128, PtsOnly(703, 16), <<0, 0, 1, 38, 1, 175>>))
PktId3Start ==
  TsPacket(Pid.id3, TRUE,
           PesBytes(<<0, 0, 1>>, 189, 0, 128, PtsOnly(703, 16), <<73, 68>>))
\* an id3 PES start whose declared length exceeds what the packet holds
PktId3Trunc ==
  TsPacket(Pid.id3, TRUE,
           PesBytes(<<0, 0, 1>>, 189, 400, 128, PtsOnly(703, 16), <<73, 68>>))
PktId3Cont == TsPacket(Pid.id3, FALSE, <<51, 4>>)
PktAudioStart ==
  TsPacket(Pid.audio, TRUE,
           PesBytes(<<0, 0, 1>>, 192, 0, 128, PtsOnly(703, 16), <<255, 241, 80>>))
PktOther == TsPacket(Pid.other, TRUE, <<9>>)
PktNull == TsPacket(Pid.null, FALSE, Fill(PacketSize - 4, 255))
PktBad == Fill(PacketSize, 0)

\* number of packets of a pushed buffer, and number of push calls of a run
BufPkts == 3
MaxPush == 2

\* the packets of which every arrangement is pushed
Packets == {PktPAT, PktPMT, PktId3Start, PktOther}

RECURSIVE PacketSeqs(_)
PacketSeqs(n) ==
  IF n = 0 THEN {<<>>} ELSE {p \o q : p \in Packets, q \in PacketSeqs(n - 1)}

\* further buffers: video, audio and id3 continuation packets, the AVC
\* programme, a packet without sync byte, a buffer of exactly three packets
\* and the empty buffer
MoreBuffers ==
  { PktPAT \o PktPMT \o PktVideoStart \o <<SyncByte>>,
    PktVideoStart \o PktVideoStart \o PktId3Start \o <<SyncByte>>,
    PktPAT \o PktPMT \o PktVideoTrunc \o <<SyncByte>>,
    PktVideoTrunc \o PktVideoStart \o PktId3Start \o <<SyncByte>>,
    PktPAT \o PktPMTavc \o PktVideoStart \o <<SyncByte>>,
    PktPAT \o PktPMT \o PktAudioStart \o <<SyncByte>>,
    PktAudioStart \o PktPAT \o PktPMT \o <<SyncByte>>,
    PktId3Cont \o PktId3Start \o PktId3Cont \o <<SyncByte>>,
    PktNull \o PktPAT \o PktPMT \o <<SyncByte>>,
    PktPAT \o PktPMT \o PktId3Start \o PktBad,
    PktBad \o PktPAT \o PktPMT \o <<SyncByte>>,
    PktPAT \o PktPMT \o PktId3Start,
    <<>> }

\* BufPkts packets and one more byte (so that the scan window of the sync
\* search is not empty), and the further buffers
Buffers == {b \o <<SyncByte>> : b \in PacketSeqs(BufPkts)} \cup MoreBuffers

\* the embeddings: the names bound grow along the order in which a run
\* evaluates them; the embedding that binds them all also varies the values
\* of audioId and contiguous.  The remuxer of every embedding is no
\* passthrough remuxer.
Prefix(k) == {FreeNames[i] : i \in 1..k}
AllBound == Prefix(Len(FreeNames))

HostEnvs ==
  {h \in [bound : {Prefix(0), Prefix(2), Prefix(3), Prefix(5), AllBound},
          audioId : {Pid.audio, 0 - 1}, contiguous : BOOLEAN, passthrough : {FALSE},
          audioData : {NoAcc}, id3TrackPesData : {NoAcc}] :
     h.bound # AllBound => (h.audioId = Pid.audio /\ h.contiguous)}

-----------------------------------------------------------------------------
(* The demuxer driven by its callers                                       *)

NoCall ==
  [op |-> "none", err |-> "", log |-> <<>>, pmtParsedBefore |-> FALSE, probed |-> FALSE]
NoHist == [unknownBeforePmt |-> FALSE]

Init ==
  /\ dmx = NoInstance
  /\ host \in HostEnvs
  /\ out = NoCall
  /\ npush = 0
  /\ hist = NoHist
  /\ fin = 0
  /\ fout = 0

\* new TSDemuxer(observer, remuxer, config, typeSupported): line 42 evaluates
\* this.remuxerClass (undefined unless the embedding patches the prototype),
\* then the argument id, then constructs
Construct ==
  /\ ~dmx.exists
  /\ out.op = "none"
  /\ LET forceKeyFrame == FALSE  \* forceKeyFrameOnDiscontinuity = 0 of the driver
     IN
       IF ~Bound(host, "id")
       THEN /\ out' = [NoCall EXCEPT !.op = "constructor", !.err = "ReferenceError"]
            /\ dmx' = dmx
       ELSE IF ~Bound(host, "remuxerClass")
       THEN /\ out' = [NoCall EXCEPT !.op = "constructor", !.err = "TypeError"]
            /\ dmx' = dmx
       ELSE /\ out' = [NoCall EXCEPT !.op = "constructor"]
            /\ dmx' = constructor(forceKeyFrame)
  /\ UNCHANGED <<host, npush, hist, fin, fout>>

\* the driver of the repository constructs with the remuxer class as third
\* argument and pushes at once; an instance whose constructor threw is not
\* handed out, so the calls below need an instance
ResetInitSegment ==
  /\ dmx.exists
  /\ dmx' = resetInitSegment(dmx)
  /\ out' = [NoCall EXCEPT !.op = "resetInitSegment", !.pmtParsedBefore = dmx.pmtParsed]
  /\ hist' = NoHist
  /\ UNCHANGED <<host, npush, fin, fout>>

\* index of the first event ev of a log, Len + 1 when there is none
FirstEvent(log, ev) ==
  IF \E i \in 1..Len(log) : log[i].ev = ev
  THEN CHOOSE i \in 1..Len(log) : log[i].ev = ev /\ \A j \in 1..(i - 1) : log[j].ev # ev
  ELSE Len(log) + 1

CountEvent(log, ev) == Cardinality({i \in 1..Len(log) : log[i].ev = ev})

\* the call reached remuxer.remux
HasRemux(log) == \E i \in 1..Len(log) : log[i].ev = "remux"

Push ==
  /\ dmx.exists
  /\ npush < MaxPush
  /\ \E data \in Buffers :
       \E r \in {push(dmx, host, data)} :
          /\ dmx' = r.this
          /\ host' = r.host
          /\ out' = [op |-> "push", err |-> r.err, log |-> r.log,
                     pmtParsedBefore |-> dmx.pmtParsed, probed |-> probe(data)]
          /\ hist' = IF dmx.pmtParsed THEN hist
                     ELSE [hist EXCEPT !.unknownBeforePmt =
                             @ \/ \E i \in 1..(FirstEvent(r.log, "parsePMT") - 1) :
                                    r.log[i].ev = "unknownPID"]
  /\ npush' = npush + 1
  /\ UNCHANGED <<fin, fout>>

Next == Construct \/ ResetInitSegment \/ Push

Spec == Init /\ [][Next]_vars

-----------------------------------------------------------------------------
(* One stream pushed in two halves and in one piece                        *)

\* number of freely chosen packets in each half of the stream
HalfPkts == 2

SplitPackets == {PktId3Start, PktId3Cont, PktVideoStart, PktNull}

RECURSIVE SplitSeqs(_)
SplitSeqs(n) ==
  IF n = 0 THEN {<<>>} ELSE {p \o q : p \in SplitPackets, q \in SplitSeqs(n - 1)}

\* the stream starts with PAT and PMT; each half has at least four packets,
\* so that the sync search of each push finds offset 0
FirstHalves == {PktPAT \o PktPMT \o b : b \in SplitSeqs(HalfPkts)}
SecondHalves == {b \o PktNull \o PktNull : b \in SplitSeqs(HalfPkts)}

\* the embedding that binds every name, with audioId the audio PID of the PMT
FullHost ==
  [bound |-> AllBound, audioId |-> Pid.audio, contiguous |-> TRUE, passthrough |-> FALSE,
   audioData |-> NoAcc, id3TrackPesData |-> NoAcc]

FreshDemuxer == resetInitSegment(constructor(FALSE))

InitSplit ==
  /\ dmx = FreshDemuxer
  /\ host = FullHost
  /\ out = NoCall
  /\ npush = 0
  /\ hist = NoHist
  /\ fin = [stage |-> 0, b1 |-> <<>>, b2 |-> <<>>]
  /\ fout = [this |-> FreshDemuxer, host |-> FullHost, err |-> ""]

\* push(b1) on the demuxer that gets the halves
SplitFirst ==
  /\ fin.stage = 0
  /\ \E b1 \in FirstHalves :
       \E r \in {push(dmx, host, b1)} :
          /\ dmx' = r.this
          /\ host' = r.host
          /\ out' = [op |-> "push", err |-> r.err, log |-> r.log,
                     pmtParsedBefore |-> dmx.pmtParsed, probed |-> probe(b1)]
          /\ fin' = [stage |-> 1, b1 |-> b1, b2 |-> <<>>]
  /\ npush' = npush + 1
  /\ UNCHANGED <<hist, fout>>

\* push(b2) on the same demuxer, and push(b1 || b2) on a second, reset one
SplitSecond ==
  /\ fin.stage = 1
  /\ out.err = ""
  /\ \E b2 \in SecondHalves :
       \E r \in {push(dmx, host, b2)}, w \in {push(fout.this, fout.host, fin.b1 \o b2)} :
          /\ dmx' = r.this
          /\ host' = r.host
          /\ out' = [op |-> "push", err |-> r.err, log |-> r.log,
                     pmtParsedBefore |-> dmx.pmtParsed, probed |-> probe(b2)]
          /\ fin' = [fin EXCEPT !.stage = 2, !.b2 = b2]
          /\ fout' = [this |-> w.this, host |-> w.host, err |-> w.err]
  /\ npush' = npush + 1
  /\ UNCHANGED hist

NextSplit == SplitFirst \/ SplitSecond

SpecSplit == InitSplit /\ [][NextSplit]_vars

\* the samples of a list as a multiset
BagOfSeq(q) ==
  [x \in {q[i] : i \in 1..Len(q)} |-> Cardinality({i \in 1..Len(q) : q[i] = x})]

\* the samples the parsers have put into the tracks of an instance
TrackSamples(this) ==
  [video |-> BagOfSeq(this.videoTrack.samples),
   audio |-> BagOfSeq(this.aacTrack.samples),
   id3 |-> BagOfSeq(this.id3Track.samples),
   text |-> BagOfSeq(this.txtTrack.samples)]

-----------------------------------------------------------------------------
(* _parseHEVCPES applied to a sequence of PES packets                      *)

\* number of _parseHEVCPES calls of a run
MaxPes == 3

\* NAL units with their start codes: AUD (35), IDR_W_RADL (19), TRAIL_R (1)
\* ending in two zero bytes, VPS (32) behind a 4-byte start code, a NAL unit
\* of the unused type 48
NalAUD == <<0, 0, 1, 70, 1>>
NalIDR == <<0, 0, 1, 38, 1, 175>>
NalTrailZeros == <<0, 0, 1, 2, 1, 0, 0>>
NalVPS == <<0, 0, 0, 1, 64, 1>>
NalOther == <<0, 0, 1, 96, 1>>

\* profile_tier_level of 12 bytes, plain and with emulation prevention bytes
PtlPlain == <<1, 96, 0, 0, 0, 144, 0, 0, 0, 0, 0, 93>>
PtlEscaped == <<1, 96, 0, 0, 3, 0, 144, 0, 0, 3, 0, 0, 3, 0, 93>>

\* the SPS NAL units and the fields coded in them: sps id 0, chroma format,
\* width 4, height 2, conformance window flag, the two bit depths
SpsUnits ==
  { [ptl |-> PtlPlain, tail |-> <<162, 182>>, chroma |-> 1, window |-> 0, luma |-> 0,
     depth |-> 0],
    [ptl |-> PtlEscaped, tail |-> <<162, 182>>, chroma |-> 1, window |-> 0, luma |-> 0,
     depth |-> 0],
    [ptl |-> PtlPlain, tail |-> <<162, 179, 96>>, chroma |-> 1, window |-> 0, luma |-> 2,
     depth |-> 2],
    [ptl |-> PtlEscaped, tail |-> <<162, 179, 96>>, chroma |-> 1, window |-> 0, luma |-> 2,
     depth |-> 2],
    [ptl |-> PtlPlain, tail |-> <<162, 190>>, chroma |-> 1, window |-> 1, luma |-> 0,
     depth |-> 0],
    [ptl |-> PtlEscaped, tail |-> <<162, 190>>, chroma |-> 1, window |-> 1, luma |-> 0,
     depth |-> 0] }

NalSPS(u) == <<0, 0, 0, 1, 66, 1, 1>> \o u.ptl \o u.tail
NalPPS == <<0, 0, 0, 1, 68, 1, 193>>

\* PES payloads: whole NAL units, the end of a start code that began in the
\* previous PES, bytes without a start code, bytes before the first start code
\* a group with a keyframe and one without in one PES, an SPS and a group
\* without a keyframe
VideoPayloads ==
  { NalAUD \o NalIDR, NalAUD \o NalTrailZeros, NalIDR, NalTrailZeros, NalVPS, NalOther,
    NalAUD \o NalOther \o NalAUD \o NalIDR, NalIDR \o NalAUD \o NalTrailZeros,
    <<1, 38, 7>>, <<0, 1, 2, 7>>, <<9, 9>>, <<9>> \o NalIDR,
    NalIDR \o NalAUD \o NalVPS,
    NalSPS([ptl |-> PtlPlain, tail |-> <<162, 182>>]) \o NalAUD \o NalVPS }

VideoPes(data, t) ==
  [err |-> "", null |-> FALSE, data |-> data, pts |-> Stamp(t, 0), dts |-> Stamp(t, 0),
   len |-> 0]

\* the scanner state field is assigned by no code before the scanner has found
\* a unit; the parser is run both on that instance and on one whose field a
\* caller has set to 0
InitVideo ==
  /\ \E forceKeyFrame \in BOOLEAN, state \in {Undef, 0} :
       dmx = [resetInitSegment(constructor(forceKeyFrame)) EXCEPT !.avcNaluState = state]
  /\ host = FullHost
  /\ out = NoCall
  /\ npush = 0
  /\ hist = NoHist
  /\ fin = PesNull
  /\ fout = 0

ParseHEVCPES ==
  /\ npush < MaxPes
  /\ out.err = ""
  /\ \E data \in VideoPayloads :
       \E pes \in {VideoPes(data, npush)} :
         \E r \in {parseHEVCPES(dmx, pes)} :
            /\ dmx' = r.this
            /\ out' = [NoCall EXCEPT !.op = "parseHEVCPES", !.err = r.err]
            /\ fin' = pes
  /\ npush' = npush + 1
  /\ UNCHANGED <<host, hist, fout>>

NextVideo == ParseHEVCPES

SpecVideo == InitVideo /\ [][NextVideo]_vars

-----------------------------------------------------------------------------
(* _insertSampleInOrder                                                    *)

\* largest PTS inserted, and number of insertions of a run
MaxPts == 3
MaxInsert == 4

\* arr.splice(pos, 0, data): 0-based position
Splice(arr, pos, data) == SubSeq(arr, 1, pos) \o <<data>> \o SubSeq(arr, pos + 1, Len(arr))

\* the for loop from len - 1 downwards: the first position whose sample has a
\* larger PTS gets the new sample spliced in before it
RECURSIVE InsertScan(_, _, _)
InsertScan(arr, data, pos) ==
  IF pos >= 0
  THEN IF data.pts < arr[pos + 1].pts THEN Splice(arr, pos, data)
       ELSE InsertScan(arr, data, pos - 1)
  ELSE arr

insertSampleInOrder(arr, data) ==
  LET len == Len(arr)
  IN IF len > 0
     THEN IF data.pts >= arr[len].pts THEN Append(arr, data)
          ELSE InsertScan(arr, data, len - 1)
     ELSE Append(arr, data)

\* fin: the samples inserted so far (in call order); fout: the list
InitInsert ==
  /\ dmx = NoInstance
  /\ host = FullHost
  /\ out = NoCall
  /\ npush = 0
  /\ hist = NoHist
  /\ fin = <<>>
  /\ fout = <<>>

InsertSample ==
  /\ Len(fin) < MaxInsert
  /\ \E t \in 0..MaxPts :
       LET data == [type |-> 3, pts |-> t, uid |-> Len(fin) + 1]
       IN /\ fin' = Append(fin, data)
          /\ fout' = insertSampleInOrder(fout, data)
  /\ UNCHANGED <<dmx, host, out, npush, hist>>

NextInsert == InsertSample

SpecInsert == InitInsert /\ [][NextInsert]_vars

-----------------------------------------------------------------------------
(* _parsePMT on PMT sections                                               *)

\* number of entries of a PMT
MaxEntries == 2

\* stream types: AAC, MPEG-1 and MPEG-2 audio, ID3 metadata, H.264, HEVC,
\* private data
PmtTypes == {15, 3, 4, 21, AVC, HEVC, 6}
PmtEntries == [type : PmtTypes, pid : {Pid.video, Pid.audio}, es : {0, 2}]

RECURSIVE EntrySeqs(_)
EntrySeqs(n) ==
  IF n = 0 THEN {<<>>}
  ELSE EntrySeqs(n - 1)
       \cup {Append(q, e) : q \in {x \in EntrySeqs(n - 1) : Len(x) = n - 1}, e \in PmtEntries}

InitPMT ==
  /\ dmx = NoInstance
  /\ host = FullHost
  /\ out = NoCall
  /\ npush = 0
  /\ hist = NoHist
  /\ fin = [pil |-> 0, entries |-> <<>>]
  /\ fout = PMTResultInit

\* the call of case pmtId: the section starts behind the pointer field
ParsePMT ==
  /\ npush = 0
  /\ npush' = 1
  /\ \E pil \in {0, 3}, entries \in EntrySeqs(MaxEntries) :
       \E data \in {PsiPacket(Pid.pmt, PmtSection(pil, entries))} :
          /\ fin' = [pil |-> pil, entries |-> entries]
          /\ fout' = parsePMT(data, PsiOffset(data, TRUE, 4))
  /\ UNCHANGED <<dmx, host, out, hist>>

NextPMT == ParsePMT

SpecPMT == InitPMT /\ [][NextPMT]_vars

-----------------------------------------------------------------------------
(* _parsePES on PES headers that carry timestamps                          *)

\* the timestamps in units of 128 ticks (the upper 26 bits): 0, 1, one minute
\* (42187), the values around 2^32 / 128 = 33554432, and the largest
StampHis == {0, 1, 42187, 42188, 33554431, 33554432, 33596619, 67108863}
\* their lower 7 bits
StampLos == {0, 64, 65, 127}

\* PTS_DTS_flags of byte 7: PTS only, PTS and DTS
PesFlagSets == {128, 192}

\* fin: the header's fields; fout: what _parsePES returns for the PES
InitPES ==
  /\ dmx = NoInstance
  /\ host = FullHost
  /\ out = NoCall
  /\ npush = 0
  /\ hist = NoHist
  /\ fin = [flags |-> 0, p |-> NoStamp, d |-> NoStamp, m |-> <<0, 0, 0>>]
  /\ fout = PesNull

\* parsePES on the accumulator of one packet payload that holds the whole PES
ParsePES ==
  /\ npush = 0
  /\ npush' = 1
  /\ \E flags \in PesFlagSets, ph \in StampHis, pl \in StampLos,
        dh \in {0, 33554432}, dl \in {0, 64}, m1 \in {0, 1}, m2 \in {0, 1}, m3 \in {0, 1} :
       LET optional == StampBytes(flags \div 64, ph, pl, m1, m2, m3)
                       \o (IF flags = 192 THEN StampBytes(1, dh, dl, 1, 1, 1) ELSE <<>>)
           bytes == PesBytes(<<0, 0, 1>>, 224, 0, flags, optional, <<0, 0, 1, 70, 1>>)
           stream == AccPush(NewAcc, bytes, Len(bytes))
       IN /\ (flags = 128 => dh = 0 /\ dl = 0)
          /\ fin' = [flags |-> flags, p |-> Stamp(ph, pl), d |-> Stamp(dh, dl),
                     m |-> <<m1, m2, m3>>]
          /\ fout' = Let(stream, LAMBDA acc : parsePES(acc))
  /\ UNCHANGED <<dmx, host, out, hist>>

NextPES == ParsePES

SpecPES == InitPES /\ [][NextPES]_vars

-----------------------------------------------------------------------------
(* The packet loop of push, turn by turn                                   *)

\* number of freely chosen packets of a buffer
TurnPkts == 3

TurnPackets == {PktVideoStart, PktVideoTrunc, PktId3Start, PktId3Trunc, PktOther, PktBad}

RECURSIVE TurnSeqs(_)
TurnSeqs(n) ==
  IF n = 0 THEN {<<>>} ELSE {p \o q : p \in TurnPackets, q \in TurnSeqs(n - 1)}

\* three packets with sync bytes (the programme tables, with a null packet
\* behind or a packet of an unknown PID ahead), so that the sync search finds
\* offset 0, then the chosen packets
TurnBuffers ==
  {h \o q : h \in {PktPAT \o PktPMT \o PktNull, PktOther \o PktPAT \o PktPMT},
            q \in TurnSeqs(TurnPkts)}

\* fin: the buffer and the locals of the call; fout: the locals before the
\* last turn (the locals at loop entry when no turn has been taken)
InitTurn ==
  /\ dmx = FreshDemuxer
  /\ host = FullHost
  /\ out = NoCall
  /\ npush = 0
  /\ hist = NoHist
  /\ \E data \in TurnBuffers :
       \E c \in {PushStart(FreshDemuxer, FullHost, data)} :
          /\ fin = [data |-> data, c |-> c]
          /\ fout = c

Turn ==
  /\ Live(fin.c)
  /\ fin.c.start < fin.c.len
  /\ fout' = fin.c
  /\ fin' = [fin EXCEPT !.c = LoopTurn(fin.c, fin.data)]
  /\ UNCHANGED <<dmx, host, out, npush, hist>>

NextTurn == Turn

SpecTurn == InitTurn /\ [][NextTurn]_vars

-----------------------------------------------------------------------------
(* AAC PES packets: pushed in a fragment, and handed to _parseAACPES       *)

\* number of calls of a run
MaxAudio == 2

\* PES payloads: an ADTS header at the start, behind one byte, none at all,
\* and payloads too short for a header
AudioPayloads ==
  { <<255, 241, 80, 128>>, <<0, 255, 241, 80>>, <<1, 2, 3>>, <<7, 255>>, <<255>>,
    <<0, 0>>, <<255, 15, 255, 7>>, <<9, 9, 255, 240, 0>>, <<>> }

PktAudio(payload) ==
  TsPacket(Pid.audio, TRUE, PesBytes(<<0, 0, 1>>, 192, 0, 128, PtsOnly(703, 16), payload))

\* the fragments: the AAC PES is closed by the start of a second one, or is
\* the last of its PID
AudioBuffers(payload) ==
  { PktPAT \o PktPMT \o PktAudio(payload) \o PktAudio(<<255, 241, 80, 128>>),
    PktPAT \o PktPMT \o PktAudio(payload) \o PktNull }

\* fin: the payload of the AAC PES of the last call
InitAudio ==
  /\ dmx = FreshDemuxer
  /\ host = FullHost
  /\ out = NoCall
  /\ npush = 0
  /\ hist = NoHist
  /\ fin = <<>>
  /\ fout = 0

PushAudio ==
  /\ npush < MaxAudio
  /\ \E payload \in AudioPayloads :
       \E data \in AudioBuffers(payload) :
          \E r \in {push(dmx, host, data)} :
             /\ dmx' = r.this
             /\ host' = r.host
             /\ out' = [op |-> "push", err |-> r.err, log |-> r.log,
                        pmtParsedBefore |-> dmx.pmtParsed, probed |-> probe(data)]
             /\ fin' = payload
  /\ npush' = npush + 1
  /\ UNCHANGED <<hist, fout>>

\* _parseAACPES on the PES that _parsePES makes of the packet's payload
ParseAACPES ==
  /\ npush < MaxAudio
  /\ \E payload \in AudioPayloads :
       \E bytes \in {PesBytes(<<0, 0, 1>>, 192, 0, 128, PtsOnly(703, 16), payload)} :
          \E r \in {parseAACPES(dmx, parsePES(AccPush(NewAcc, bytes, Len(bytes))))} :
             /\ dmx' = r.this
             /\ out' = [op |-> "parseAACPES", err |-> r.err, log |-> r.log,
                        pmtParsedBefore |-> dmx.pmtParsed, probed |-> FALSE]
             /\ fin' = payload
  /\ npush' = npush + 1
  /\ UNCHANGED <<host, hist, fout>>

NextAudio == PushAudio \/ ParseAACPES

SpecAudio == InitAudio /\ [][NextAudio]_vars

-----------------------------------------------------------------------------
(* push with its argument cc                                               *)

\* largest cc passed, and number of push calls of a run
MaxCC == 1
MaxCCPush == 2

CCBuffers ==
  { PktPAT \o PktPMT \o PktId3Start \o <<SyncByte>>,
    PktPAT \o PktPMT \o PktNull \o <<SyncByte>>,
    PktPAT \o PktPMT \o PktVideoStart \o PktId3Start,
    PktNull \o PktNull \o PktNull \o <<SyncByte>>,
    PktPAT \o PktPMT \o PktId3Start \o PktId3Start }

\* fin: the cc of the last call and the cc before it (lastCC of the
\* constructor when there was no call before); fout: whether the last call
\* reached remuxer.remux, and the contiguous flag it handed over
InitCC ==
  /\ dmx = FreshDemuxer
  /\ \E b \in BOOLEAN : host = [FullHost EXCEPT !.contiguous = b]
  /\ out = NoCall
  /\ npush = 0
  /\ hist = NoHist
  /\ fin = [cc |-> FreshDemuxer.lastCC, prev |-> FreshDemuxer.lastCC]
  /\ fout = [remux |-> FALSE, contiguous |-> FALSE]

\* push(data, audioCodec, videoCodec, timeOffset, cc, level, sn, duration);
\* no statement of push reads the parameter cc
PushCC ==
  /\ npush < MaxCCPush
  /\ \E cc \in 0..MaxCC, data \in CCBuffers :
       \E r \in {push(dmx, host, data)} :
          /\ dmx' = r.this
          /\ host' = r.host
          /\ out' = [op |-> "push", err |-> r.err, log |-> r.log,
                     pmtParsedBefore |-> dmx.pmtParsed, probed |-> probe(data)]
          /\ fin' = [cc |-> cc, prev |-> fin.cc]
          /\ fout' = [remux |-> HasRemux(r.log),
                      contiguous |-> HasRemux(r.log) /\ RemuxContiguous(r)]
  /\ npush' = npush + 1
  /\ UNCHANGED hist

NextCC == PushCC

SpecCC == InitCC /\ [][NextCC]_vars

-----------------------------------------------------------------------------
(* probe and the while loop of _syncOffset, turn by turn                   *)

\* largest number of packets of a buffer
ScanPkts == 4

\* a packet of a sync byte and zeroes
PktZero == <<SyncByte>> \o Fill(PacketSize - 1, 0)

\* n packets, the k-th of them (if any) without its sync byte
RECURSIVE ZeroPackets(_, _)
ZeroPackets(n, k) ==
  IF n = 0 THEN <<>>
  ELSE ZeroPackets(n - 1, k) \o (IF n = k THEN PktBad ELSE PktZero)

\* bytes ahead of the first packet: a few, a packet's length and one byte
\* less or more (of zeroes or of sync bytes), and lengths around the limit
\* of the search
ScanShort ==
  {Fill(j, b) \o ZeroPackets(n, k) \o Fill(t, SyncByte) :
     j \in {0, 1, 2, PacketSize - 1, PacketSize + 1}, b \in {0, SyncByte},
     n \in 0..ScanPkts, k \in 0..ScanPkts, t \in {0, 1}}
ScanLong ==
  {Fill(j, 0) \o ZeroPackets(n, 0) \o Fill(t, SyncByte) :
     j \in {ScanLimit - 1, ScanLimit, ScanLimit + 1}, n \in 3..ScanPkts, t \in {0, 1}}
ScanBuffers == ScanShort \cup ScanLong

\* fin: the buffer, the locals i and scanwindow of _syncOffset, where the
\* call is (in the loop, returned, probe returned) and what it returned;
\* fout: what probe returned
InitScan ==
  /\ dmx = NoInstance
  /\ host = FullHost
  /\ out = NoCall
  /\ npush = 0
  /\ hist = NoHist
  /\ \E data \in ScanBuffers :
       fin = [data |-> data, i |-> 0, scanwindow |-> ScanWindow(data), pc |-> "scan",
              ret |-> Undef]
  /\ fout = FALSE

\* one turn of the while loop, or its end
ScanStep ==
  /\ fin.pc = "scan"
  /\ fin' = IF fin.i < fin.scanwindow
            THEN IF SyncTest(fin.data, fin.i)
                 THEN [fin EXCEPT !.pc = "returned", !.ret = fin.i]
                 ELSE [fin EXCEPT !.i = @ + 1]
            ELSE [fin EXCEPT !.pc = "returned", !.ret = 0 - 1]
  /\ UNCHANGED <<dmx, host, out, npush, hist, fout>>

\* probe, once its call of _syncOffset has returned
ProbeReturn ==
  /\ fin.pc = "returned"
  /\ fin' = [fin EXCEPT !.pc = "probed"]
  /\ fout' = ProbeOf(fin.ret)
  /\ UNCHANGED <<dmx, host, out, npush, hist>>

NextScan == ScanStep \/ ProbeReturn

SpecScan == InitScan /\ [][NextScan]_vars

-----------------------------------------------------------------------------
(* probe and push on short buffers                                         *)

\* number of calls of a run
MaxEdge == 2

\* the empty buffer, one byte, two and three packets of a sync byte and
\* zeroes, three such packets and one byte, zeroes only, programmes of three
\* and four packets, and three packets behind one byte of junk
EdgeBuffers ==
  { <<>>, <<SyncByte>>, ZeroPackets(2, 0), ZeroPackets(3, 0),
    ZeroPackets(3, 0) \o <<SyncByte>>, Fill(3 * PacketSize, 0),
    PktPAT \o PktPMT \o PktId3Start \o <<SyncByte>>,
    PktPAT \o PktPMT \o PktId3Start,
    PktPAT \o PktPMT \o PktVideoStart \o <<SyncByte>>,
    PktOther \o PktPAT \o PktPMT \o PktId3Start,
    <<0>> \o ZeroPackets(3, 0) \o <<SyncByte, 0>> }

\* fin: the buffer of the last call; fout: the instance before it
InitEdge ==
  /\ dmx = FreshDemuxer
  /\ host = FullHost
  /\ out = NoCall
  /\ npush = 0
  /\ hist = NoHist
  /\ fin = <<>>
  /\ fout = FreshDemuxer

ProbeEdge ==
  /\ npush < MaxEdge
  /\ \E data \in EdgeBuffers :
       /\ out' = [NoCall EXCEPT !.op = "probe", !.probed = probe(data)]
       /\ fin' = data
  /\ fout' = dmx
  /\ npush' = npush + 1
  /\ UNCHANGED <<dmx, host, hist>>

PushEdge ==
  /\ npush < MaxEdge
  /\ \E data \in EdgeBuffers :
       \E r \in {push(dmx, host, data)} :
          /\ dmx' = r.this
          /\ host' = r.host
          /\ out' = [op |-> "push", err |-> r.err, log |-> r.log,
                     pmtParsedBefore |-> dmx.pmtParsed, probed |-> probe(data)]
          /\ fin' = data
  /\ fout' = dmx
  /\ npush' = npush + 1
  /\ UNCHANGED hist

NextEdge == ProbeEdge \/ PushEdge

SpecEdge == InitEdge /\ [][NextEdge]_vars

-----------------------------------------------------------------------------
(* The AVC scanner on two consecutive buffers, a start code straddling them *)

\* number of scanner calls of a run
MaxAvc == 2

\* the unit the first buffer leaves open and the unit after the start code:
\* type byte and body
AvcOpenUnits == {<<65, 154>>, <<65>>, <<103, 66, 0, 30>>, <<65, 0, 7>>}
AvcNextUnits == {<<101, 136, 132>>, <<101>>, <<104, 206>>}

\* the splits: a start code of codeLen bytes with k of its zero bytes at the
\* tail of the first buffer
AvcSplits == {c \in [codeLen : {3, 4}, k : 1..3] : c.k < c.codeLen}

\* the first buffer opens its unit with a 3-byte start code, or with the type
\* byte when the caller's scanner state says that a start code has just ended
AvcFirstBuffer(this, open, k) ==
  LET head == IF HasAvcTrack(this) /\ this.avcTrack.naluState = 0 - 1
              THEN <<>> ELSE <<0, 0, 1>>
  IN head \o open \o Fill(k, 0)

AvcSecondBuffer(split, nal) == Fill(split.codeLen - 1 - split.k, 0) \o <<1>> \o nal

\* the field _avcTrack is assigned by no code: the scanner is run on that
\* instance, and on instances where a caller has put a track there, without
\* scanner state or with the state of a start code that has just ended
InitAvc ==
  /\ \/ dmx = FreshDemuxer
     \/ \E state \in {Undef, 0 - 1} :
          dmx = FreshDemuxer @@ [avcTrack |-> [naluState |-> state]]
  /\ host = FullHost
  /\ out = NoCall
  /\ npush = 0
  /\ hist = NoHist
  /\ fin = <<>>
  /\ fout = 0

\* fin: the split, the open unit and the unit after the start code;
\* fout: what the first call returned
AvcFirst ==
  /\ npush = 0
  /\ \E split \in AvcSplits, open \in AvcOpenUnits, nal \in AvcNextUnits :
       \E r \in {parseAVCNALu(dmx, AvcFirstBuffer(dmx, open, split.k))} :
          /\ dmx' = r.this
          /\ out' = [NoCall EXCEPT !.op = "parseAVCNALu", !.err = r.err]
          /\ fin' = [split |-> split, open |-> open, nal |-> nal]
          /\ fout' = [units |-> r.units, err |-> r.err]
  /\ npush' = 1
  /\ UNCHANGED <<host, hist>>

\* the second call; out.log holds the units it returned
AvcSecond ==
  /\ npush = 1
  /\ npush < MaxAvc
  /\ \E r \in {parseAVCNALu(dmx, AvcSecondBuffer(fin.split, fin.nal))} :
       /\ dmx' = r.this
       /\ out' = [NoCall EXCEPT !.op = "parseAVCNALu", !.err = r.err, !.log = r.units]
  /\ npush' = npush + 1
  /\ UNCHANGED <<host, hist, fin, fout>>

NextAvc == AvcFirst \/ AvcSecond

SpecAvc == InitAvc /\ [][NextAvc]_vars

-----------------------------------------------------------------------------
(* A fragment of one AVC access unit: PAT, PMT, one video PES              *)

\* number of push calls of a run
MaxFrag == 2

\* PTS and DTS of the PES as (hi, lo) with value hi * 128 + lo:
\* 126000/90000, 90000/90000, 93003/90000, 129/1
FragStamps ==
  { [p |-> Stamp(984, 48), d |-> Stamp(703, 16)], [p |-> Stamp(703, 16), d |-> Stamp(703, 16)],
    [p |-> Stamp(726, 75), d |-> Stamp(703, 16)], [p |-> Stamp(1, 1), d |-> Stamp(0, 1)] }

\* SPS (type 7), PPS (type 8) and IDR (type 5) NAL units behind start codes
AvcSPS == <<0, 0, 0, 1, 103, 66, 192, 30, 217, 1, 65, 251>>
AvcPPS == <<0, 0, 0, 1, 104, 206, 60, 128>>
AvcIDR == <<0, 0, 1, 101, 136, 132, 33>>
AvcPayloads == {AvcSPS \o AvcPPS \o AvcIDR, AvcSPS \o AvcPPS \o AvcIDR \o <<0, 0, 1, 101, 7>>,
                <<0, 0, 0, 1, 9, 240>> \o AvcSPS \o AvcPPS \o AvcIDR}

PktAvcPes(st, payload) ==
  TsPacket(Pid.video, TRUE,
           PesBytes(<<0, 0, 1>>, 224, 0, 192,
                    StampBytes(3, st.p.hi, st.p.lo, 1, 1, 1)
                    \o StampBytes(1, st.d.hi, st.d.lo, 1, 1, 1), payload))

\* what follows the PES in the buffer: the final flush closes the PES
FragTails == {<<SyncByte>>, PktNull, PktOther \o <<SyncByte>>}

\* fin: the stamps and the payload of the PES of the last push
InitFrag ==
  /\ dmx = FreshDemuxer
  /\ host = FullHost
  /\ out = NoCall
  /\ npush = 0
  /\ hist = NoHist
  /\ fin = [st |-> [p |-> NoStamp, d |-> NoStamp], payload |-> <<>>]
  /\ fout = 0

PushFrag ==
  /\ npush < MaxFrag
  /\ \E st \in FragStamps, payload \in AvcPayloads, tail \in FragTails :
       \E r \in {push(dmx, host, PktPAT \o PktPMTavc \o PktAvcPes(st, payload) \o tail)} :
          /\ dmx' = r.this
          /\ host' = r.host
          /\ out' = [op |-> "push", err |-> r.err, log |-> r.log,
                     pmtParsedBefore |-> dmx.pmtParsed, probed |-> TRUE]
          /\ fin' = [st |-> st, payload |-> payload]
  /\ npush' = npush + 1
  /\ UNCHANGED <<hist, fout>>

\* a reset between two fragments
ResetFrag ==
  /\ npush > 0
  /\ out.op = "push"
  /\ dmx' = resetInitSegment(dmx)
  /\ out' = [NoCall EXCEPT !.op = "resetInitSegment", !.pmtParsedBefore = dmx.pmtParsed]
  /\ UNCHANGED <<host, npush, hist, fin, fout>>

NextFrag == PushFrag \/ ResetFrag

SpecFrag == InitFrag /\ [][NextFrag]_vars

-----------------------------------------------------------------------------
(* An HEVC access unit with parameter sets: VPS, SPS, PPS, IDR_W_RADL, AUD  *)

\* number of _parseHEVCPES calls of a run
MaxSps == 2

\* the scanner state field is assigned by no code before the scanner has found
\* a unit; the parser is run both on that instance and on one whose field a
\* caller has set to 0
InitSps ==
  /\ \E forceKeyFrame \in BOOLEAN, state \in {Undef, 0} :
       dmx = [resetInitSegment(constructor(forceKeyFrame)) EXCEPT !.avcNaluState = state]
  /\ host = FullHost
  /\ out = NoCall
  /\ npush = 0
  /\ hist = NoHist
  /\ fin = [sps |-> CHOOSE u \in SpsUnits : TRUE, t |-> 0]
  /\ fout = 0

\* fin: the SPS of the PES of the last call and the number of the call;
\* fout: the instance before the call
ParseSpsPES ==
  /\ npush < MaxSps
  /\ \E u \in SpsUnits :
       \E pes \in {VideoPes(NalVPS \o NalSPS(u) \o NalPPS \o NalIDR \o NalAUD, npush)} :
         \E r \in {parseHEVCPES(dmx, pes)} :
            /\ dmx' = r.this
            /\ out' = [NoCall EXCEPT !.op = "parseHEVCPES", !.err = r.err]
            /\ fin' = [sps |-> u, t |-> npush]
  /\ fout' = dmx
  /\ npush' = npush + 1
  /\ UNCHANGED <<host, hist>>

\* a reset between two fragments
ResetSps ==
  /\ out.op = "parseHEVCPES"
  /\ dmx' = resetInitSegment(dmx)
  /\ out' = [NoCall EXCEPT !.op = "resetInitSegment"]
  /\ UNCHANGED <<host, npush, hist, fin, fout>>

NextSps == ParseSpsPES \/ ResetSps

SpecSps == InitSps /\ [][NextSps]_vars

-----------------------------------------------------------------------------
(* discardEPB on every short byte array                                    *)

\* longest array, and the byte values the arrays are made of
MaxEpb == 7
EpbBytes == {0, 3, 7}

EpbArrays == UNION {[1..n -> EpbBytes] : n \in 0..MaxEpb}

\* fin: the argument; fout: the result; npush: whether the call was made
InitEpb ==
  /\ dmx = FreshDemuxer
  /\ host = FullHost
  /\ out = NoCall
  /\ npush = 0
  /\ hist = NoHist
  /\ fin \in EpbArrays
  /\ fout = <<>>

DiscardEPB ==
  /\ npush = 0
  /\ fout' = discardEPB(fin)
  /\ out' = [NoCall EXCEPT !.op = "discardEPB"]
  /\ npush' = 1
  /\ UNCHANGED <<dmx, host, hist, fin>>

NextEpb == DiscardEPB

SpecEpb == InitEpb /\ [][NextEpb]_vars

-----------------------------------------------------------------------------
(* readUE at every bit position: n zero bits, a 1 bit, n trailing bits     *)

\* largest bit position of the code, and largest number n of zero bits
MaxPos == 21
MaxUE == 9

\* the n bits of t, the most significant first
RECURSIVE BitsOf(_, _)
BitsOf(t, n) == IF n = 0 THEN <<>> ELSE BitsOf(t \div 2, n - 1) \o <<t % 2>>

RECURSIVE BitsToBytes(_)
BitsToBytes(bits) ==
  IF bits = <<>> THEN <<>>
  ELSE <<bits[1] * 128 + bits[2] * 64 + bits[3] * 32 + bits[4] * 16
         + bits[5] * 8 + bits[6] * 4 + bits[7] * 2 + bits[8]>>
       \o BitsToBytes(SubSeq(bits, 9, Len(bits)))

\* the codes: n and the trailing bits t
UeCodes ==
  {c \in [n : 0..MaxUE, t : 0..(Pow2(MaxUE) - 1)] :
     c.t \in {0, 1, Pow2(c.n) - 2, Pow2(c.n) - 1} /\ c.t < Pow2(c.n)}

\* the inputs: p bits of value fill, the code, 1 bits up to the byte's end,
\* and one more byte
UeInputs == [p : 0..MaxPos, fill : {0, 1}, code : UeCodes]

UeData(in) ==
  LET bits == [i \in 1..in.p |-> in.fill]
              \o [i \in 1..in.code.n |-> 0] \o <<1>> \o BitsOf(in.code.t, in.code.n)
      pad == (8 - (Len(bits) % 8)) % 8
  IN BitsToBytes(bits \o [i \in 1..pad |-> 1]) \o <<165>>

\* the bit position of a reader in its data
ReaderPosition(rd) == (Len(rd.data) - rd.bytesAvailable) * 8 - rd.bitsInCache

\* fin: the input; fout: the reader and what the last call returned
InitUE ==
  /\ dmx = FreshDemuxer
  /\ host = FullHost
  /\ out = NoCall
  /\ npush = 0
  /\ hist = NoHist
  /\ fin \in UeInputs
  /\ fout = [rd |-> NewReader(UeData(fin)), val |-> 0, err |-> ""]

\* the reader is brought to the position of the code
SeekUE ==
  /\ npush = 0
  /\ fout' = [fout EXCEPT !.rd = skipBits(fout.rd, fin.p)]
  /\ out' = [NoCall EXCEPT !.op = "skipBits"]
  /\ npush' = 1
  /\ UNCHANGED <<dmx, host, hist, fin>>

ReadUE ==
  /\ npush = 1
  /\ fout' = readUE(fout.rd)
  /\ out' = [NoCall EXCEPT !.op = "readUE"]
  /\ npush' = 2
  /\ UNCHANGED <<dmx, host, hist, fin>>

NextUE == SeekUE \/ ReadUE

SpecUE == InitUE /\ [][NextUE]_vars

-----------------------------------------------------------------------------
(* Video and id3 PES packets numbered in stream order, over several pushes *)

\* number of push calls of a run, and of PES packets of one push
MaxOrder == 2
MaxOrderPes == 2

\* a PES packet of the stream: its PID, its declared length (400 exceeds what
\* the packet holds) and its payload
OrderKinds ==
  { [pid |-> Pid.video, pesLen |-> 0, payload |-> NalIDR \o NalAUD \o NalTrailZeros],
    [pid |-> Pid.id3, pesLen |-> 0, payload |-> <<73, 68>>],
    [pid |-> Pid.id3, pesLen |-> 400, payload |-> <<73, 68>>] }

OrderSeqs == UNION {[1..n -> OrderKinds] : n \in 1..MaxOrderPes}

\* the k-th PES packet of the stream carries PTS k
PktOrder(kind, k) ==
  TsPacket(kind.pid, TRUE,
           PesBytes(<<0, 0, 1>>, IF kind.pid = Pid.video THEN 224 ELSE 189, kind.pesLen, 128,
                    PtsOnly(0, k), kind.payload))

RECURSIVE OrderBuffer(_, _)
OrderBuffer(kinds, k) ==
  IF kinds = <<>> THEN <<SyncByte>>
  ELSE PktOrder(Head(kinds), k) \o OrderBuffer(Tail(kinds), k + 1)

\* fin: the number of PES packets the stream has carried so far
InitOrder ==
  /\ \E state \in {Undef, 0} : dmx = [FreshDemuxer EXCEPT !.avcNaluState = state]
  /\ host = FullHost
  /\ out = NoCall
  /\ npush = 0
  /\ hist = NoHist
  /\ fin = 0
  /\ fout = 0

PushOrder ==
  /\ npush < MaxOrder
  /\ out.err = ""
  /\ \E kinds \in OrderSeqs :
       \E r \in {push(dmx, host, PktPAT \o PktPMT \o OrderBuffer(kinds, fin + 1))} :
          /\ dmx' = r.this
          /\ host' = r.host
          /\ out' = [op |-> "push", err |-> r.err, log |-> r.log,
                     pmtParsedBefore |-> dmx.pmtParsed, probed |-> TRUE]
          /\ fin' = fin + Len(kinds)
  /\ npush' = npush + 1
  /\ UNCHANGED <<hist, fout>>

ResetOrder ==
  /\ out.op = "push"
  /\ dmx' = resetInitSegment(dmx)
  /\ out' = [NoCall EXCEPT !.op = "resetInitSegment", !.pmtParsedBefore = dmx.pmtParsed]
  /\ UNCHANGED <<host, npush, hist, fin, fout>>

NextOrder == PushOrder \/ ResetOrder

SpecOrder == InitOrder /\ [][NextOrder]_vars

-----------------------------------------------------------------------------
(* push on buffers whose packets begin at an offset and end in a partial   *)
(* packet                                                                  *)

\* number of push calls of a run, and the number of whole packets of a buffer
MaxTrim == 2
TrimPkts == 3

\* the bytes ahead of the first packet and behind the last whole one
TrimJunk == {0, 1, 2, 20}
TrimTails == {0, 1, 94, 180, 186, 187}

RECURSIVE NullPackets(_)
NullPackets(n) == IF n = 0 THEN <<>> ELSE PktNull \o NullPackets(n - 1)

\* the partial packet begins with a sync byte or with a zero
TrimBuffers ==
  {Fill(j, 0) \o NullPackets(TrimPkts) \o (IF t = 0 THEN <<>> ELSE <<b>> \o Fill(t - 1, 0)) :
     j \in TrimJunk, t \in TrimTails, b \in {0, SyncByte}}

\* fin: the buffer of the last push
InitTrim ==
  /\ dmx = FreshDemuxer
  /\ host = FullHost
  /\ out = NoCall
  /\ npush = 0
  /\ hist = NoHist
  /\ fin = <<>>
  /\ fout = 0

PushTrim ==
  /\ npush < MaxTrim
  /\ \E data \in TrimBuffers :
       \E r \in {push(dmx, host, data)} :
          /\ dmx' = r.this
          /\ host' = r.host
          /\ out' = [op |-> "push", err |-> r.err, log |-> r.log,
                     pmtParsedBefore |-> dmx.pmtParsed, probed |-> TRUE]
          /\ fin' = data
  /\ npush' = npush + 1
  /\ UNCHANGED <<hist, fout>>

NextTrim == PushTrim

SpecTrim == InitTrim /\ [][NextTrim]_vars

-----------------------------------------------------------------------------
(* One ADTS frame split over two AAC PES packets                           *)

\* longest frame, header of 7 bytes included
MaxFrame == 11

\* an ADTS frame of n bytes: syncword, AAC LC, 44100 Hz, two channels, the
\* frame length n, and n - 7 bytes b of data
AdtsFrame(n, b) ==
  <<255, 241, 80, 128, n \div 8, (n % 8) * 32 + 31, 252>> \o Fill(n - 7, b)

AdtsFrames == {AdtsFrame(n, b) : n \in 8..MaxFrame, b \in {0, 33, 255}}

AacPes(payload) ==
  LET bytes == PesBytes(<<0, 0, 1>>, 192, 0, 128, PtsOnly(703, 16), payload)
  IN parsePES(AccPush(NewAcc, bytes, Len(bytes)))

\* fin: the frame and the number of its bytes that the first PES carries
InitAdts ==
  /\ dmx = FreshDemuxer
  /\ host = FullHost
  /\ out = NoCall
  /\ npush = 0
  /\ hist = NoHist
  /\ \E frame \in AdtsFrames : \E k \in 1..(Len(frame) - 1) : fin = [frame |-> frame, k |-> k]
  /\ fout = 0

\* _parseAACPES on the first PES, with the first k bytes of the frame
AacFirst ==
  /\ npush = 0
  /\ \E r \in {parseAACPES(dmx, AacPes(SubSeq(fin.frame, 1, fin.k)))} :
       /\ dmx' = r.this
       /\ out' = [op |-> "parseAACPES", err |-> r.err, log |-> r.log,
                  pmtParsedBefore |-> dmx.pmtParsed, probed |-> FALSE]
  /\ npush' = 1
  /\ UNCHANGED <<host, hist, fin, fout>>

\* _parseAACPES on the second PES, with the rest of the frame
AacSecond ==
  /\ npush = 1
  /\ \E r \in {parseAACPES(dmx, AacPes(SubSeq(fin.frame, fin.k + 1, Len(fin.frame))))} :
       /\ dmx' = r.this
       /\ out' = [op |-> "parseAACPES", err |-> r.err, log |-> r.log,
                  pmtParsedBefore |-> dmx.pmtParsed, probed |-> FALSE]
  /\ npush' = 2
  /\ UNCHANGED <<host, hist, fin, fout>>

NextAdts == AacFirst \/ AacSecond

SpecAdts == InitAdts /\ [][NextAdts]_vars

-----------------------------------------------------------------------------
(* The packet loop on packets that carry an adaptation field               *)

\* number of freely chosen packets of a buffer
AfPkts == 2

\* adaptation_field_length bytes: none, one that leaves a payload byte, one
\* that fills the packet, and two that point behind the packet's end
AfLengths == {0, 182, 183, 184, 255}

AfPackets ==
  {TsPacketAf(pid, pusi, aflen, 170) :
     pid \in {Pid.video, Pid.audio, Pid.id3}, pusi \in BOOLEAN, aflen \in AfLengths}

RECURSIVE AfSeqs(_)
AfSeqs(n) ==
  IF n = 0 THEN {<<>>} ELSE {p \o q : p \in AfPackets, q \in AfSeqs(n - 1)}

\* the programme tables and a null packet, so that the sync search finds
\* offset 0, then the chosen packets
AfBuffers == {PktPAT \o PktPMT \o PktNull \o q : q \in AfSeqs(AfPkts)}

InitAf ==
  /\ dmx = FreshDemuxer
  /\ host = FullHost
  /\ out = NoCall
  /\ npush = 0
  /\ hist = NoHist
  /\ \E data \in AfBuffers :
       \E c \in {PushStart(FreshDemuxer, FullHost, data)} :
          /\ fin = [data |-> data, c |-> c]
          /\ fout = c

SpecAf == InitAf /\ [][NextTurn]_vars

-----------------------------------------------------------------------------
(* The packet loop on buffers whose PMT comes behind other packets         *)

\* number of freely chosen packets ahead of the programme tables
RewindPkts == 2

PktAudioCont == TsPacket(Pid.audio, FALSE, <<80, 128>>)

RewindPackets ==
  {PktVideoStart, PktAudioStart, PktAudioCont, PktId3Start, PktOther, PktNull}

RECURSIVE RewindSeqs(_)
RewindSeqs(n) ==
  IF n = 0 THEN {<<>>} ELSE {p \o q : p \in RewindPackets, q \in RewindSeqs(n - 1)}

\* the chosen packets, the programme tables, one more packet
RewindBuffers ==
  {pre \o PktPAT \o PktPMT \o post :
     pre \in RewindSeqs(RewindPkts), post \in RewindPackets}

\* embeddings that bind every name: audioId holds the audio PID of the
\* stream, or no PID at all; audioData is unset, or holds the audio PES that
\* an earlier call left open
RewindHosts ==
  {FullHost, [FullHost EXCEPT !.audioId = 0 - 1],
   [FullHost EXCEPT !.audioData =
      AccPush(NewAcc, Subarray(PktAudioStart, 4, PacketSize), PacketSize - 4)]}

InitRewind ==
  /\ dmx = FreshDemuxer
  /\ out = NoCall
  /\ npush = 0
  /\ hist = NoHist
  /\ \E data \in RewindBuffers, h \in RewindHosts :
       \E c \in {PushStart(FreshDemuxer, h, data)} :
          /\ host = h
          /\ fin = [data |-> data, c |-> c]
          /\ fout = c

SpecRewind == InitRewind /\ [][NextTurn]_vars

-----------------------------------------------------------------------------
(* readSPSHEVC on SPS NAL units, whole and cut short                       *)

\* largest number of bytes cut off the end of a unit
MaxCut == 20

\* an SPS NAL unit as the parser gets it: from the NAL header on
SpsBody(u) == <<66, 1, 1>> \o u.ptl \o u.tail

\* the units, and how many of their last bytes are missing
SpsInputs ==
  {i \in [sps : SpsUnits, cut : 0..MaxCut] : i.cut <= Len(SpsBody(i.sps))}

SpsData(i) == SubSeq(SpsBody(i.sps), 1, Len(SpsBody(i.sps)) - i.cut)

\* fin: the unit and its cut; fout: the locals of readSPSHEVC when it ends
InitRead ==
  /\ dmx = FreshDemuxer
  /\ host = FullHost
  /\ out = NoCall
  /\ npush = 0
  /\ hist = NoHist
  /\ fin \in SpsInputs
  /\ fout = 0

ReadSPS ==
  /\ npush = 0
  /\ \E r \in {readSPSHEVC(NewReader(SpsData(fin)))} :
       /\ fout' = r
       /\ out' = [NoCall EXCEPT !.op = "readSPSHEVC", !.err = r.err]
  /\ npush' = 1
  /\ UNCHANGED <<dmx, host, hist, fin>>

NextRead == ReadSPS

SpecRead == InitRead /\ [][NextRead]_vars

-----------------------------------------------------------------------------
(* Properties                                                              *)

HasEvent(log, ev) == \E i \in 1..Len(log) : log[i].ev = ev

\* C1: pushing the halves b1 then b2 in two push calls leaves the tracks with
\* the same multiset of samples, byte for byte, as one push of b1 || b2
C1_SplitEquivalence ==
  (fin.stage = 2 /\ out.err = "" /\ fout.err = "")
     => TrackSamples(dmx) = TrackSamples(fout.this)

\* C2: a push of a buffer that probe accepts, on a demuxer that has been
\* reset, does not throw
C2_PushNeverThrows ==
  (out.op = "push" /\ out.probed /\ dmx.tracks) => out.err = ""

\* C3: construction leaves the demuxer in the reset state (tracks present,
\* PIDs unknown, PMT not parsed), and a push on a demuxer that was never
\* reset does not throw
C3_PushAfterConstruction ==
  /\ (out.op = "constructor" /\ out.err = "")
        => (dmx.tracks /\ dmx.pmtId = 0 - 1 /\ ~dmx.pmtParsed)
  /\ (out.op = "push" /\ ~dmx.tracks) => out.err = ""

\* the packets before the first PMT parse of the last call, as log positions
BeforeFirstPmt(log) == 1..(FirstEvent(log, "parsePMT") - 1)

\* the last call parsed the first PMT since the last reset
ParsedFirstPmt == ~out.pmtParsedBefore /\ HasEvent(out.log, "parsePMT")

\* no sample is added before the first PMT since the reset is parsed
NoSampleBeforePmt ==
  ~out.pmtParsedBefore =>
     \A i \in BeforeFirstPmt(out.log) : out.log[i].ev \notin {"parseID3PES", "parseVideoPES"}

\* C4 as stated: a push rewinds at most once; it rewinds exactly once iff a
\* packet of an unknown PID was seen, in this or an earlier call, before the
\* first PMT parsed since the last reset; no sample is added before that PMT
C4_RewindSinceReset ==
  out.op = "push" =>
    /\ CountEvent(out.log, "rewind") <= 1
    /\ CountEvent(out.log, "rewind") = 1 <=> (ParsedFirstPmt /\ hist.unknownBeforePmt)
    /\ NoSampleBeforePmt

\* C4 amended: a push rewinds at most once; it rewinds exactly once iff it
\* parses the first PMT since the last reset and, earlier in the same call, a
\* packet reached the default case of the PID switch; no sample is added
\* before that PMT
C4_RewindWithinCall ==
  out.op = "push" =>
    /\ CountEvent(out.log, "rewind") <= 1
    /\ CountEvent(out.log, "rewind") = 1
         <=> (ParsedFirstPmt
              /\ \E i \in BeforeFirstPmt(out.log) : out.log[i].ev = "unknownPID")
    /\ NoSampleBeforePmt

\* a push that rewound, ran to its end and parsed an id3 PES after the rewind
C4_Witness ==
  /\ out.op = "push" /\ out.err = ""
  /\ CountEvent(out.log, "rewind") = 1
  /\ HasEvent(out.log, "parseID3PES")

\* C5: a push that reaches the end of the packet loop (and, to leave aside
\* the exceptions of the flushes, returns) has parsed the pending audio
\* accumulator, as it has the video and id3 ones, and has called
\* remuxer.remux exactly once
C5_FlushThenRemux ==
  (out.op = "push" /\ out.err = "" /\ HasEvent(out.log, "loopEnd")) =>
    /\ CountEvent(out.log, "remux") = 1
    /\ host.audioData.set =>
         \E i \in 1..Len(out.log) : out.log[i] = Event("parsePES", "audio")

RECURSIVE SumUnitBytes(_)
SumUnitBytes(units) ==
  IF units = <<>> THEN 0 ELSE Len(Head(units).data) + SumUnitBytes(Tail(units))

RECURSIVE SumSampleBytes(_)
SumSampleBytes(samples) ==
  IF samples = <<>> THEN 0
  ELSE SumUnitBytes(Head(samples).units) + SumSampleBytes(Tail(samples))

C7_InsertInOrder ==
  /\ \A i, j \in 1..Len(fout) : i < j => fout[i].pts <= fout[j].pts
  /\ BagOfSeq(fout) = BagOfSeq(fin)

\* C8: once reset, the video, audio, id3 and text tracks have the ids 0, 1, 2
\* and 3
C8_TrackIds ==
  dmx.tracks =>
    /\ dmx.videoTrack.id = 0
    /\ dmx.aacTrack.id = 1
    /\ dmx.id3Track.id = 2
    /\ dmx.txtTrack.id = 3

\* the first entry of a PMT whose stream type is one of types, 0 if none
FirstOf(entries, types) ==
  IF \E i \in 1..Len(entries) : entries[i].type \in types
  THEN CHOOSE i \in 1..Len(entries) :
         /\ entries[i].type \in types
         /\ \A j \in 1..(i - 1) : entries[j].type \notin types
  ELSE 0

FirstPid(entries, types) ==
  IF FirstOf(entries, types) = 0 THEN 0 - 1 ELSE entries[FirstOf(entries, types)].pid

\* C9: the PMT parse yields, for audio (0x0F, 0x03, 0x04), id3 (0x15) and
\* video (0x1B, 0x24), the PID of the first entry of that kind, -1 when there
\* is none, and the stream type of the first video entry
C9_PmtMapping ==
  npush = 1 =>
    /\ fout.aac = FirstPid(fin.entries, {15, 3, 4})
    /\ fout.id3 = FirstPid(fin.entries, {21})
    /\ fout.videoPID = FirstPid(fin.entries, {AVC, HEVC})
    /\ fout.videoStreamType =
         IF FirstOf(fin.entries, {AVC, HEVC}) = 0 THEN 0 - 1
         ELSE fin.entries[FirstOf(fin.entries, {AVC, HEVC})].type

\* the value p of the claim for the encoded 33-bit timestamp t: t up to
\* 2^32 - 1 (upper part below 2^25), t - 2^33 above
SignedStamp(t) == IF t.hi <= 33554431 THEN t ELSE Stamp(t.hi - 67108864, t.lo)

\* C10 as stated: with the PTS flag set, the pts returned is p for
\* p <= 2^32 - 1 and p - 2^33 above, whatever the marker bits
C10_PtsRoundTrip ==
  npush = 1 => (~fout.null /\ fout.err = "" /\ fout.pts = SignedStamp(fin.p))

\* the header carries a DTS more than 60 * 90000 ticks before the PTS
DtsFarBefore ==
  fin.flags = 192 /\ StampDiffGt(SignedStamp(fin.p), SignedStamp(fin.d), 42187, 64)

\* C10 amended: the pts returned is p for p <= 2^32 - 1 and p - 2^33 above,
\* whatever the marker bits, unless the header also carries a DTS more than
\* 60 * 90000 ticks before it: then the pts returned is that DTS
C10_PtsRoundTripUnlessAligned ==
  npush = 1 =>
    /\ ~fout.null /\ fout.err = ""
    /\ fout.pts = IF DtsFarBefore THEN SignedStamp(fin.d) ELSE SignedStamp(fin.p)

\* the largest 33-bit value with all marker bits 0 came back as -1
C10_Witness ==
  /\ npush = 1
  /\ fin.p = Stamp(67108863, 127) /\ fin.m = <<0, 0, 0>> /\ fin.flags = 128
  /\ fout.pts = Stamp(0 - 1, 127)

\* the last turn of the loop found no sync byte at its packet position
TurnOnBadPacket == fout # fin.c /\ At(fin.data, fout.start) # SyncByte

\* C11: a turn of the packet loop whose position does not hold 0x47 triggers
\* exactly one ERROR event (MEDIA_ERROR, FRAG_PARSING_ERROR, not fatal), and
\* changes nothing else but the position, which moves to the next packet:
\* accumulators, tracks and learned PIDs stay as they were and the loop goes on
C11_SyncLossSkipsPacket ==
  TurnOnBadPacket =>
    fin.c = [fout EXCEPT
               !.log = Append(@, [ev |-> "ERROR",
                                  what |-> "TS packet did not start with 0x47",
                                  data |-> [type |-> "mediaError",
                                            details |-> "fragParsingError",
                                            fatal |-> FALSE]]),
               !.start = @ + PacketSize]

\* a bad packet met while a video PES is being accumulated and the PMT is known
C11_Witness ==
  /\ TurnOnBadPacket
  /\ fout.videoData.set
  /\ fout.pmtParsed
  /\ Live(fin.c)
  /\ fin.c.start < fin.c.len

\* C12: a push call whose AAC PES has no ADTS header (the PES for which
\* _parseAACPES raises the fatal error 'no ADTS header found in AAC PES')
\* returns without invoking remuxer.remux
C12_FatalAdtsNoRemux ==
  (out.op = "push" /\ AacHeaderError(fin) = "fatal") => ~HasEvent(out.log, "remux")

\* the last turn of the loop was for a payload-unit start on the PID of an
\* accumulator (video or id3) for whose content _parsePES returns null
TurnClosesNullPes(pidOf(_), accOf(_)) ==
  /\ fout # fin.c
  /\ At(fin.data, fout.start) = SyncByte
  /\ JsAnd(At(fin.data, fout.start + 1), 64) # 0
  /\ Plus(JsAnd(At(fin.data, fout.start + 1), 31) * 256, At(fin.data, fout.start + 2))
       = pidOf(fout)
  /\ accOf(fout).set
  /\ parsePES(accOf(fout)).null

VideoPidOf(c) == c.videoPID
VideoAccOf(c) == c.videoData
Id3PidOf(c) == c.id3Id
Id3AccOf(c) == c.id3Data

\* the turn threw nothing, triggered no event of the observer, left the
\* tracks as they were and the loop running
TurnSilent ==
  /\ Live(fin.c)
  /\ fin.c.this = fout.this
  /\ \A i \in (Len(fout.log) + 1)..Len(fin.c.log) : fin.c.log[i].ev # "ERROR"

\* C13: when _parsePES returns null for the accumulator that a payload-unit
\* start closes, on the video PID as on the id3 PID, the accumulator is
\* discarded silently: no sample is added, no error event is triggered,
\* nothing is thrown, and the loop continues with a new accumulator that
\* holds the payload of the packet
C13_NullPesDiscarded ==
  /\ TurnClosesNullPes(VideoPidOf, VideoAccOf) =>
       (TurnSilent /\ fin.c.videoData.set /\ Len(fin.c.videoData.data) = 1)
  /\ TurnClosesNullPes(Id3PidOf, Id3AccOf) =>
       (TurnSilent /\ fin.c.id3Data.set /\ Len(fin.c.id3Data.data) = 1)

\* C14: after resetInitSegment, whatever the state before, the four tracks
\* are fresh (no samples, len 0, PID unknown), the PMT PID is unknown and the
\* PMT not parsed, the AAC overflow and the last AAC PTS are null and no
\* access unit is in progress
C14_ResetState ==
  out.op = "resetInitSegment" =>
    /\ dmx.tracks
    /\ \A t \in {dmx.videoTrack, dmx.aacTrack, dmx.id3Track, dmx.txtTrack} :
         t.samples = <<>> /\ t.len = 0
    /\ dmx.videoTrack.type = "video" /\ dmx.videoTrack.PID = 0 - 1
    /\ dmx.aacTrack.type = "audio" /\ dmx.aacTrack.id = 0 - 1
    /\ dmx.id3Track.type = "id3" /\ dmx.id3Track.id = 0 - 1
    /\ dmx.txtTrack.type = "text" /\ dmx.txtTrack.id = 0 - 1
    /\ dmx.pmtId = 0 - 1
    /\ ~dmx.pmtParsed
    /\ dmx.aacOverFlow = <<>>
    /\ dmx.aacLastPTS = Null
    /\ dmx.avcSample = FALSE

\* a reset of a demuxer that had parsed a PMT
C14_Witness ==
  out.op = "resetInitSegment" /\ out.pmtParsedBefore /\ npush > 0

\* C15: resetInitSegment clears the NAL scanner state: the scan that follows
\* a reset loads state 0 (line 954 loads this.avcNaluState), and the video
\* track holds no unit from before the reset that the scan could strip
\* start-code bytes from or append overflow bytes to
C15_ResetClearsScanner ==
  out.op = "resetInitSegment" =>
    (dmx.avcNaluState = 0 /\ dmx.videoTrack.samples = <<>>)

\* C16: the contiguous flag that a push hands to remuxer.remux is true iff
\* the cc of the call equals the cc of the call before it (the lastCC of the
\* constructor for the first call)
C16_ContiguousIffSameCC ==
  (out.op = "push" /\ fout.remux) => (fout.contiguous <=> (fin.cc = fin.prev))

\* the positions the claim allows: 0 <= i < min(1000, len - 564) with the
\* bytes i, i + 188 and i + 376 all 0x47
SyncPositions(data) ==
  LET w == IF Len(data) - 564 < 1000 THEN Len(data) - 564 ELSE 1000
  IN {i \in 0..(w - 1) : data[i + 1] = 71 /\ data[i + 189] = 71 /\ data[i + 377] = 71}

\* C19: _syncOffset returns the least i with 0 <= i < min(1000, len - 564)
\* such that bytes i, i + 188 and i + 376 are all 0x47, or -1 when there is
\* none; probe returns true iff _syncOffset does not return -1
C19_SyncOffsetLeast ==
  /\ fin.pc # "scan" =>
       IF SyncPositions(fin.data) = {} THEN fin.ret = 0 - 1
       ELSE /\ fin.ret \in SyncPositions(fin.data)
            /\ \A i \in SyncPositions(fin.data) : fin.ret <= i
  /\ fin.pc = "probed" => (fout <=> fin.ret # 0 - 1)

\* a search that passed over a packet's length and one more byte of junk
\* and found the packets behind it, after which probe answered true
C19_Witness ==
  /\ fin.pc = "probed"
  /\ fout
  /\ fin.ret = PacketSize + 1

\* the tracks and the PIDs learned, of an instance
TrackState(this) ==
  <<this.videoTrack, this.aacTrack, this.id3Track, this.txtTrack, this.pmtId,
    this.pmtParsed>>

\* C17: for the empty buffer probe returns false, and push is a no-op: it
\* visits no packet position, triggers no error event, adds no sample and
\* changes no track or PID state
C17_EmptyBufferNoOp ==
  (out.op \in {"probe", "push"} /\ fin = <<>>) =>
    /\ ~out.probed
    /\ out.op = "push" =>
         /\ out.err = ""
         /\ ~HasEvent(out.log, "packet")
         /\ ~HasEvent(out.log, "ERROR")
         /\ TrackState(dmx) = TrackState(fout)

\* C18: for the buffer of exactly 3 * 188 bytes with 0x47 at offsets 0, 188
\* and 376 and zeroes elsewhere, probe returns true, and push adds no sample
\* to any track and triggers no error event
C18_ThreePacketBuffer ==
  (out.op \in {"probe", "push"}
   /\ fin = [k \in 1..564 |-> IF k \in {1, 189, 377} THEN 71 ELSE 0]) =>
    /\ out.probed
    /\ out.op = "push" =>
         /\ ~HasEvent(out.log, "ERROR")
         /\ TrackSamples(dmx) = TrackSamples(fout)

\* C20: when a 3- or 4-byte start code straddles two consecutive AVC scan
\* calls with k in {1,2,3} of its zero bytes at the tail of the first buffer,
\* then after the second call the unit left open by the first call has those
\* k bytes stripped, and the unit after the start code is reported exactly
\* once, in the second call, with all of its bytes
C20_StraddledStartCode ==
  (out.op = "parseAVCNALu" /\ npush = 2)
     => /\ fout.err = "" /\ out.err = ""
        /\ Len(fout.units) > 0
        /\ fout.units[Len(fout.units)].data = fin.open
        /\ \A i \in 1..Len(fout.units) : fout.units[i].data # fin.nal
        /\ Cardinality({i \in 1..Len(out.log) : out.log[i].data = fin.nal}) = 1

\* C21: a push of PAT, PMT with an AVC video PID and one video PES with PTS p
\* and DTS d whose payload is SPS, PPS and IDR hands the remuxer a video
\* track with exactly one sample, key, pts = p, dts = d, and an avc1 codec
C21_AvcAccessUnit ==
  (out.op = "push" /\ npush = 1)
     => /\ out.err = ""
        /\ HasRemux(out.log)
        /\ Len(dmx.videoTrack.samples) = 1
        /\ dmx.videoTrack.samples[1].key
        /\ dmx.videoTrack.samples[1].pts = fin.st.p
        /\ dmx.videoTrack.samples[1].dts = fin.st.d
        /\ dmx.videoTrack.codec # ""

\* C22: on a reset demuxer, a video PES of an HEVC stream whose payload is
\* VPS, SPS, PPS, an IDR_W_RADL slice and an AUD yields exactly one video
\* sample with key = true, sets track.codec to hev1.1.6.L93.B0 and takes the
\* chroma format and the bit depths from the SPS
C22_HevcAccessUnit ==
  (out.op = "parseHEVCPES" /\ fout.videoTrack.samples = <<>>)
     => /\ out.err = ""
        /\ Len(dmx.videoTrack.samples) = 1
        /\ dmx.videoTrack.samples[1].key
        /\ dmx.videoTrack.codec = "hev1.1.6.L93.B0"
        /\ dmx.videoTrack.chromaFormatIdc = fin.sps.chroma
        /\ dmx.videoTrack.bitDepthLumaMinus8 = fin.sps.luma
        /\ dmx.videoTrack.bitDepthChromaMinus8 = fin.sps.depth

\* the indices (from 1) of the 0x03 bytes of the 00 00 03 triples of data that
\* start at index first or later
TripleEnds(data, first) ==
  {k \in (first + 2)..Len(data) : data[k] = 3 /\ data[k - 1] = 0 /\ data[k - 2] = 0}

\* data without the bytes at the indices of drop, the others in order
RECURSIVE Without(_, _, _)
Without(data, drop, k) ==
  IF k > Len(data) THEN <<>>
  ELSE (IF k \in drop THEN <<>> ELSE <<data[k]>>) \o Without(data, drop, k + 1)

\* C23: discardEPB returns the input unchanged when it contains no 00 00 03
\* triple, and otherwise the input without the 0x03 byte of each triple, at
\* every position, a triple at the start of the input included
C23_EpbStripped ==
  (out.op = "discardEPB") => fout = Without(fin, TripleEnds(fin, 1), 1)

\* C23 as amended: the 0x03 byte of each triple that starts behind the first
\* byte is removed; a triple that starts at the first byte is kept
C23_EpbStrippedBehindFirstByte ==
  (out.op = "discardEPB") => fout = Without(fin, TripleEnds(fin, 2), 1)

C23_Witness ==
  /\ out.op = "discardEPB"
  /\ Cardinality(TripleEnds(fin, 2)) = 2
  /\ Len(fout) = Len(fin) - 2

\* C24: at every bit position of the input and for every n, readUE applied to
\* n zero bits, a 1 bit and n trailing bits returns (1 << n) - 1 + trailing
\* and leaves the reader just behind those 2n + 1 bits
C24_ReadUE ==
  (out.op = "readUE")
     => /\ fout.err = ""
        /\ fout.val = Pow2(fin.code.n) - 1 + fin.code.t
        /\ ReaderPosition(fout.rd) = fin.p + 2 * fin.code.n + 1

\* C24 as amended: the same for inputs that hold no 00 00 03 byte triple
C24_ReadUENoTriple ==
  (out.op = "readUE" /\ TripleEnds(fout.rd.data, 1) = {})
     => /\ fout.err = ""
        /\ fout.val = Pow2(fin.code.n) - 1 + fin.code.t
        /\ ReaderPosition(fout.rd) = fin.p + 2 * fin.code.n + 1

C24_Witness ==
  /\ out.op = "readUE"
  /\ TripleEnds(fout.rd.data, 1) = {}
  /\ fin.fill = 1 /\ fin.p = 13 /\ fin.code.n = 9 /\ fin.code.t = 510
  /\ fout.val = 1021

\* the samples of a list follow the numbering of their PES packets
InPesOrder(samples) ==
  \A i, j \in 1..Len(samples) :
     i < j => samples[i].pts.def /\ samples[j].pts.def /\ samples[i].pts.lo <= samples[j].pts.lo

\* C25: within the video track and within the id3 track the samples stand in
\* the order in which their PES packets appeared in the stream, over any
\* sequence of push calls between two resets
C25_PesOrder == InPesOrder(dmx.videoTrack.samples) /\ InPesOrder(dmx.id3Track.samples)

C25_Witness ==
  /\ out.op = "push" /\ npush = 2
  /\ Len(dmx.videoTrack.samples) >= 2
  /\ dmx.videoTrack.samples[1].pts.lo < dmx.videoTrack.samples[Len(dmx.videoTrack.samples)].pts.lo
  /\ Len(dmx.id3Track.samples) >= 2
  /\ dmx.id3Track.samples[1].pts.lo < dmx.id3Track.samples[2].pts.lo

\* C26: the access units of an AVC stream are closed as the state machine
\* says: at the second video PES of a stream, when that PES begins with an AUD,
\* the access unit begun by the first PES is closed and stands in the track,
\* whether the AUD closes it (an AUD was seen before) or the arrival of a
\* PES with NAL units does (no AUD was seen before)
C26_AvcStateMachine ==
  (out.op = "push" /\ npush = 2 /\ out.pmtParsedBefore /\ fin.payload[5] = 9)
     => /\ out.err = ""
        /\ Len(dmx.videoTrack.samples) >= 1
        /\ dmx.videoTrack.samples[1].units # <<>>

\* what the rule of the access units gives for the NAL units of one PES: grp
\* is the open group (n units pushed; key: the variable key of _parseHEVCPES,
\* which a keyframe NAL type sets and the closing of a group leaves alone),
\* sps is track.sps, acc counts the samples appended and the groups dropped
RECURSIVE GroupOutcome(_, _, _, _, _)
GroupOutcome(units, grp, sps, force, acc) ==
  LET closed == IF grp.n = 0 THEN acc
                ELSE IF ~force \/ grp.key \/ sps
                THEN [acc EXCEPT !.samples = @ + 1]
                ELSE [acc EXCEPT !.dropped = @ + 1]
  IN IF units = <<>> THEN closed
     ELSE LET t == Head(units).type
          IN IF t = 35
             THEN GroupOutcome(Tail(units), [n |-> 0, key |-> grp.key], sps, force, closed)
             ELSE GroupOutcome(Tail(units),
                               [n |-> grp.n + (IF t \in HevcPushTypes THEN 1 ELSE 0),
                                key |-> grp.key \/ t \in HevcKeyTypes],
                               sps \/ t = 33, force, acc)

C29_KeyOfGroup ==
  \A i \in 1..Len(dmx.videoTrack.samples) :
     LET sample == dmx.videoTrack.samples[i]
     IN sample.key <=> \E k \in 1..Len(sample.units) : sample.units[k].type \in HevcKeyTypes

\* the number of packet starts the loop of push has visited: each turn reports
\* a packet or a packet without sync byte
VisitedStarts(log) ==
  Cardinality({i \in 1..Len(log) :
                 \/ log[i].ev = "packet"
                 \/ log[i].ev = "ERROR" /\ log[i].what = "TS packet did not start with 0x47"})

\* C28: push processes complete packets only: the packet starts visited are
\* syncOffset + 188 * k, each with start + 188 <= buffer length, and every
\* complete packet at such a start is visited
C28_CompletePackets ==
  (out.op = "push" /\ out.err = "" /\ syncOffset(fin) >= 0)
     => VisitedStarts(out.log) = (Len(fin) - syncOffset(fin)) \div PacketSize

\* C30: an ADTS frame split over two consecutive AAC PES packets at any byte
\* position is neither lost nor duplicated: the bytes the first PES leaves are
\* carried in aacOverFlow and put before the second, after which the frame
\* stands in the audio track exactly once, with all of its bytes
C30_SplitFrame ==
  /\ (out.op = "parseAACPES" /\ npush = 1)
        => out.err = "" /\ dmx.aacOverFlow = SubSeq(fin.frame, 1, fin.k)
  /\ (out.op = "parseAACPES" /\ npush = 2)
        => /\ out.err = ""
           /\ dmx.aacOverFlow = <<>>
           /\ Len(dmx.aacTrack.samples) = 1
           /\ dmx.aacTrack.samples[1].unit = fin.frame

\* the offsets of the ADTS syncwords 0xFFFx of a payload
SyncwordsAt(data) ==
  {i \in 0..(Len(data) - 2) : data[i + 1] = 255 /\ data[i + 2] >= 240}

ErrorsOf(log) == {i \in 1..Len(log) : log[i].ev = "ERROR"}

\* C31: for every AAC PES payload, _parseAACPES triggers exactly one ERROR
\* with fatal true and appends no sample when the payload holds no ADTS header,
\* exactly one ERROR with fatal false, going on to parse the frames, when the
\* first header is at an offset N > 0, and no error when it is at offset 0
C31_AdtsErrors ==
  (out.op = "parseAACPES")
     => LET heads == SyncwordsAt(fin)
        IN /\ heads = {} =>
                /\ Cardinality(ErrorsOf(out.log)) = 1
                /\ \A i \in ErrorsOf(out.log) : out.log[i].data.fatal
                /\ dmx.aacTrack.samples = <<>>
           /\ (heads # {} /\ 0 \notin heads) =>
                /\ Cardinality(ErrorsOf(out.log)) = 1
                /\ \A i \in ErrorsOf(out.log) : ~out.log[i].data.fatal
                /\ out.err = ""
           /\ 0 \in heads => (ErrorsOf(out.log) = {} /\ out.err = "")

\* C32: every result of _parsePES that carries timestamps has
\* pts - dts <= 60 * 90000: dts equals pts when the DTS flag is clear, and pts
\* is set to dts when the decoded difference exceeds 60 * 90000
C32_PtsDtsBound ==
  (npush = 1 /\ ~fout.null /\ fout.pts.def)
     => /\ fout.dts.def
        /\ ~StampDiffGt(fout.pts, fout.dts, 42187, 64)
        /\ (fin.flags = 128 => fout.dts = fout.pts)
        /\ (fin.flags = 192 => fout.dts = SignedStamp(fin.d))
        /\ (DtsFarBefore => fout.pts = fout.dts)

C32_Witness ==
  /\ npush = 1 /\ ~fout.null
  /\ fin.flags = 192 /\ fin.p = Stamp(42188, 0) /\ fin.d = Stamp(0, 0)
  /\ fout.pts = Stamp(0, 0) /\ fout.dts = Stamp(0, 0)

\* C33: after a call of the AVC NAL scanner the stored scanner state is in
\* {-1, 0, 1, 2, 3}: -1 when the last byte of the buffer completed a start
\* code, otherwise the number of zero bytes at the buffer's tail, capped at 3.
\* The first buffer ends in k zero bytes behind a byte that is not zero.
C33_StoredScannerState ==
  (out.op = "parseAVCNALu" /\ npush = 1)
     => /\ out.err = ""
        /\ HasAvcTrack(dmx)
        /\ dmx.avcTrack.naluState = fin.split.k


RECURSIVE SumSliceBytes(_)
SumSliceBytes(slices) ==
  IF slices = <<>> THEN 0 ELSE Len(Head(slices)) + SumSliceBytes(Tail(slices))

\* the PES accumulators of the locals of a push call
Accumulators(c) == {c.videoData, c.id3Data, c.host.audioData}

\* the turn that led to the current state looked at a packet whose
\* adaptation field reaches exactly to the packet's end
AfFillsPacket ==
  /\ fout # fin.c
  /\ JsAnd(At(fin.data, fout.start + 3), 48) \div 16 > 1
  /\ At(fin.data, fout.start + 4) = PacketSize - 5

\* C34: in every state inside a push call, the size of each PES accumulator
\* is the sum of the byte lengths of the slices of its data list and is not
\* negative, whatever the adaptation-field length byte of the packets; a
\* packet whose adaptation field fills the packet adds no slice.
C34_AccumulatorSize ==
  /\ \A acc \in Accumulators(fin.c) :
       acc.set => (acc.size = SumSliceBytes(acc.data) /\ acc.size >= 0)
  /\ AfFillsPacket => Accumulators(fin.c) = Accumulators(fout)


\* the turn that led to the current state set the position back
RewindTurn == fout # fin.c /\ fin.c.start <= fout.start

\* PID of the packet at a position of the buffer
PidAt(data, start) == JsAnd(At(data, start + 1), 31) * 256 + At(data, start + 2)

\* the packets of a PID at the positions the loop has passed
PacketsOf(pid) ==
  {k \in 0..(Len(fin.data) \div PacketSize - 1) :
     k * PacketSize < fin.c.start /\ PidAt(fin.data, k * PacketSize) = pid}

\* C35: within one push call no packet's payload is appended to a PES
\* accumulator more than once (an accumulator never holds more slices than
\* it held when the call began plus one for each packet of its PID that the
\* loop's position has passed), also when the loop
\* rewinds to syncOffset after the first PMT: at the moment of the rewind
\* every accumulator is still empty.
C35_NoDoubleAppend ==
  /\ RewindTurn => \A acc \in Accumulators(fin.c) : acc.data = <<>>
  /\ Len(fin.c.videoData.data) <= Cardinality(PacketsOf(Pid.video))
  /\ Len(fin.c.id3Data.data) <= Cardinality(PacketsOf(Pid.id3))
  /\ Len(fin.c.host.audioData.data)
       <= Len(host.audioData.data) + Cardinality(PacketsOf(Pid.audio))


\* C36: readSPSHEVC terminates and returns its configuration record for
\* every input NAL unit, also for an SPS that is cut short before its last
\* field and for an SPS whose conformance_window_flag is 1: the call neither
\* throws nor loops for ever.
C36_ReadSpsReturns == (out.op = "readSPSHEVC") => fout.err = ""

====
